---- MODULE Spec2Model ----
(***************************************************************************)
(* ckanext-tables: the tabular data sources (list, pandas frame,           *)
(* SQLAlchemy statement), the cache backends (pickle files, Redis) and     *)
(* the cached frame loader, as state machines.                             *)
(*                                                                         *)
(* Strings are sequences of one-character strings, so that str(), lower(), *)
(* substring search and lexicographic comparison are computed, not         *)
(* assumed.                                                                *)
(***************************************************************************)
EXTENDS Integers, Sequences, FiniteSets, TLC

VARIABLES
    variant,    \* which data source class the instance is: "list", "frame", "db"
    base,       \* the rows of the backing store (list data / fetched file / table)
    ds,         \* the data source instance's fields
    raised,     \* the exception the last filter, sort or paginate call raised, or "none"
    last,       \* the last of filter, sort, paginate called on the instance;
                \* "refilter" is a filter() on an instance paginated before it
    cur,        \* what a new instance over the same rows gives for the argument
                \* of the most recent filter() call, if there was one
    paged,      \* whether paginate() was called since the most recent filter()
    ret,        \* what the last all() or count() returned, if it was the last call
    asked,      \* the argument of the last filter() call, where it is recorded
    backend,    \* the cache backend in use: "pickle" or "redis"
    now,        \* time.time(), in seconds
    files,      \* the cache directory: the file at each path
    redis,      \* the Redis server: the value and expiry time under each key
    call,       \* the backend call just made, with its arguments and outcome
    written,    \* per key, the last set() or delete() that ran to its end
    writer,     \* a process inside PickleCacheBackend.set: position and arguments
    reader,     \* a process inside PickleCacheBackend.get: position and locals
    procs,      \* the processes inside get_cache_dir and the set() after it
    cachedir,   \* the configured cache directory: whether it exists
    inst,       \* a resource data source instance: its fields
    lcall,      \* the filter or get_columns call just made on inst
    effects     \* what inst has done so far: cache reads, fetches, and what
                \* the cache held under its key when it first looked

srcVars == <<variant, base, ds, raised, last, cur, paged, ret, asked>>

cacheVars == <<backend, now, files, redis, call, written>>

dirVars == <<procs, cachedir>>

raceVars == <<writer, reader, dirVars>>

loadVars == <<inst, lcall, effects>>

vars == <<srcVars, cacheVars, raceVars, loadVars>>

\* Optional values: None is the empty tuple, a present value x is <<x>>.
None == <<>>

Some(x) == <<x>>

(***************************************************************************)
(* Bounds                                                                  *)
(***************************************************************************)
MaxRows == 2        \* rows in a backing store
MaxFilters == 2     \* items in one filter() argument
MaxPage == 2        \* page numbers 0..MaxPage
MaxSize == 2        \* page sizes 0..MaxSize
MaxTime == 2        \* the clock runs from 0 to MaxTime
MaxTtl == 2         \* ttl arguments 0..MaxTtl
MaxLoads == 2       \* cache reads and fetches counted per instance
MaxLoadTime == 1    \* the clock runs from 0 to MaxLoadTime around a resource source
MaxNest == 2        \* lists and dicts nested up to MaxNest deep in a serialized value
NumProcs == 3       \* processes that call get_cache_dir side by side
MaxPathCalls == 3   \* get_source_path calls counted per instance

(***************************************************************************)
(* Strings                                                                 *)
(***************************************************************************)
\* The characters the model uses, in code point order.
Alphabet == <<"%", ".", "0", "1", "2", "3", "4", "5", "6", "7", "8", "9",
              "A", "B", "D", "E", "L", "S", "X", "_", "a", "b", "c", "d", "e", "l", "o", "s", "x">>

Ord(c) == CHOOSE i \in 1..Len(Alphabet) : Alphabet[i] = c

Digits == <<"0", "1", "2", "3", "4", "5", "6", "7", "8", "9">>

IsDigit(c) == \E i \in 1..10 : Digits[i] = c

DigitVal(c) == (CHOOSE i \in 1..10 : Digits[i] = c) - 1

\* str.lower() on one character
LowerChar(c) == CASE c = "A" -> "a" [] c = "B" -> "b" [] c = "D" -> "d"
                  [] c = "E" -> "e" [] c = "L" -> "l" [] c = "S" -> "s"
                  [] c = "X" -> "x" [] OTHER -> c

Lower(s) == [i \in 1..Len(s) |-> LowerChar(s[i])]

\* str(n) for a non-negative int
RECURSIVE StrOfInt(_)
StrOfInt(n) == IF n < 10 THEN <<Digits[n + 1]>>
               ELSE StrOfInt(n \div 10) \o <<Digits[(n % 10) + 1]>>

\* the strings int() and float() accept here: one or more digits
IsNumeral(s) == Len(s) > 0 /\ \A i \in 1..Len(s) : IsDigit(s[i])

RECURSIVE ParseNumeral(_)
ParseNumeral(s) == IF Len(s) = 0 THEN 0
                   ELSE 10 * ParseNumeral(SubSeq(s, 1, Len(s) - 1)) + DigitVal(s[Len(s)])

\* a < b on Python strings: lexicographic by code point
RECURSIVE StrLess(_, _)
StrLess(a, b) ==
    IF Len(b) = 0 THEN FALSE
    ELSE IF Len(a) = 0 THEN TRUE
    ELSE IF a[1] # b[1] THEN Ord(a[1]) < Ord(b[1])
    ELSE StrLess(Tail(a), Tail(b))

\* b in a on Python strings: literal substring
Contains(a, b) ==
    \E i \in 1..(Len(a) - Len(b) + 1) : SubSeq(a, i, i + Len(b) - 1) = b

(***************************************************************************)
(* Python values                                                           *)
(***************************************************************************)
\* Python values that are cached: None, a number, a list of records (what
\* to_dict gives and pd.DataFrame takes), and a datetime, which is not JSON-safe.
JNull == [kind |-> "null"]

JInt(n) == [kind |-> "int", int |-> n]

JRows(rows) == [kind |-> "rows", rows |-> rows]

PyDatetime(iso) == [kind |-> "datetime", iso |-> iso]

JStr(str) == [kind |-> "str", str |-> str]

\* the other Python values serialize_value tells apart: bool, float, bytes
\* (the characters utf-8 decoding gives, "\\xff" for a byte that is not
\* utf-8), decimal.Decimal, a numpy scalar (anything with .item()), list,
\* tuple, dict with str keys, and an object of any other type with its str()
PyBool(b) == [kind |-> "bool", bool |-> b]

PyFloat(num) == [kind |-> "float", num |-> num]

PyBytes(chars) == [kind |-> "bytes", chars |-> chars]

PyDecimal(num) == [kind |-> "decimal", num |-> num]

NpScalar(item) == [kind |-> "numpy", item |-> item]

PyList(items) == [kind |-> "list", items |-> items]

PyTuple(items) == [kind |-> "tuple", items |-> items]

PyDict(items) == [kind |-> "dict", items |-> items]

PyObject(str) == [kind |-> "object", str |-> str]

\* bytes.decode("utf-8", errors="replace")
Decode(chars) ==
    [i \in 1..Len(chars) |-> IF chars[i] = "\\xff" THEN "U+FFFD" ELSE chars[i]]

(***************************************************************************)
(* Rows and filter items                                                   *)
(***************************************************************************)
Columns == <<"id", "age", "name">>

ColumnSet == {Columns[i] : i \in 1..Len(Columns)}

\* the column's type: int64 / Integer for id and age, object / String for name
IsNumericColumn(f) == f \in {"id", "age"}

\* a datetime64 / DateTime column that some backing stores have
IsDatetimeColumn(f) == f = "seen"

\* the columns of a record, in the order of its keys
RecordColumns(record) ==
    IF "seen" \in DOMAIN record THEN Columns \o <<"seen">> ELSE Columns

RowPool == {
    [id |-> 1, age |-> 157, name |-> <<"A", "l">>],
    [id |-> 2, age |-> 15,  name |-> <<"b", "o">>],
    [id |-> 3, age |-> 15,  name |-> <<"B", "o">>] }

RECURSIVE SeqsUpTo(_, _)
SeqsUpTo(S, n) ==
    IF n = 0 THEN {<<>>}
    ELSE LET shorter == SeqsUpTo(S, n - 1)
         IN  shorter \cup {Append(q, x) : q \in shorter, x \in S}

NoDup(q) == \A i, j \in 1..Len(q) : i # j => q[i] # q[j]

\* the backing stores: rows with distinct ids
Bases == {q \in SeqsUpTo(RowPool, MaxRows) : NoDup(q)}

\* types.FilterItem(field, operator, value)
FilterPool == {
    [field |-> "age",  operator |-> "=",    value |-> <<"1", "5">>],
    [field |-> "name", operator |-> "like", value |-> <<"B">>],
    [field |-> "zip",  operator |-> "=",    value |-> <<"1", "5">>] }

\* the arguments of filter(): lists of distinct items
FilterLists == {q \in SeqsUpTo(FilterPool, MaxFilters) : NoDup(q)}

Operators == {"=", "!=", "<", "<=", ">", ">=", "like"}

\* a call's outcome: the instance afterwards and the exception raised, if any
Returned(self) == [self |-> self, exc |-> "none"]

Raised(self, e) == [self |-> self, exc |-> e]

\* Python's seq[start:stop] for ints start, stop (negative ones count from the end)
PyIndex(n, i) == IF i < 0 THEN (IF n + i < 0 THEN 0 ELSE n + i)
                 ELSE IF i > n THEN n ELSE i

PySlice(q, start, stop) ==
    SubSeq(q, PyIndex(Len(q), start) + 1, PyIndex(Len(q), stop))

(***************************************************************************)
(* ListDataSource                                                          *)
(***************************************************************************)
\* ListDataSource.__init__
ListInit(data) == [data |-> data, filtered |-> data]

\* str(row.get(field, ""))
ListCell(row, field) ==
    IF field \notin DOMAIN row THEN <<>>
    ELSE IF IsNumericColumn(field) THEN StrOfInt(row[field])
    ELSE row[field]

\* the operators table of ListDataSource.build_filter, on two strings
ListOperator(op, a, b) ==
    CASE op = "="    -> a = b
      [] op = "!="   -> a # b
      [] op = "<"    -> StrLess(a, b)
      [] op = "<="   -> ~StrLess(b, a)
      [] op = ">"    -> StrLess(b, a)
      [] op = ">="   -> ~StrLess(a, b)
      [] op = "like" -> Contains(Lower(a), Lower(b))

\* one round of the loop of ListDataSource.filter: build_filter, then the
\* list comprehension when a predicate was built
ListApplyItem(rows, item) ==
    IF item.operator \in Operators
    THEN SelectSeq(rows, LAMBDA row :
             ListOperator(item.operator, ListCell(row, item.field), item.value))
    ELSE rows

RECURSIVE ListApply(_, _)
ListApply(rows, filters) ==
    IF filters = <<>> THEN rows
    ELSE ListApply(ListApplyItem(rows, Head(filters)), Tail(filters))

\* a filter() that narrows the current view instead of the data
ListFilterNoReset(self, filters) ==
    Returned([self EXCEPT !.filtered = ListApply(self.filtered, filters)])

\* ListDataSource.filter
ListFilter(self, filters) ==
    Returned([self EXCEPT !.filtered = ListApply(self.data, filters)])

\* the key order of one column: ints by value, strings by code point
KeyLess(field, a, b) == IF IsNumericColumn(field) THEN a < b ELSE StrLess(a, b)

\* sorted(rows, key=field, reverse=desc): rows moves into place from the
\* right, behind every row it does not sort before (sorted() is stable, and
\* reverse=True keeps equal keys in their original order)
RECURSIVE StableInsert(_, _, _, _)
StableInsert(sorted, row, field, desc) ==
    IF sorted = <<>> THEN <<row>>
    ELSE LET lastRow == sorted[Len(sorted)]
             before == IF desc THEN KeyLess(field, lastRow[field], row[field])
                       ELSE KeyLess(field, row[field], lastRow[field])
         IN  IF before
             THEN Append(StableInsert(SubSeq(sorted, 1, Len(sorted) - 1),
                                      row, field, desc), lastRow)
             ELSE Append(sorted, row)

RECURSIVE StableSort(_, _, _)
StableSort(rows, field, desc) ==
    IF rows = <<>> THEN <<>>
    ELSE StableInsert(StableSort(SubSeq(rows, 1, Len(rows) - 1), field, desc),
                      rows[Len(rows)], field, desc)

\* (sort_order or "").lower() == "desc"; a sort_order of None reads as ""
IsDesc(sort_order) == Lower(sort_order) = <<"d", "e", "s", "c">>

\* a sort that sorts the data list in place (self.data.sort(...))
ListSortInPlace(self, sort_by, sort_order) ==
    IF sort_by = "" \/ sort_by \notin ColumnSet
    THEN Returned(self)
    ELSE LET sorted == StableSort(self.data, sort_by, IsDesc(sort_order))
         IN  Returned([self EXCEPT !.data = sorted, !.filtered = sorted])

\* ListDataSource.sort
ListSort(self, sort_by, sort_order) ==
    IF sort_by = ""                  \* not sort_by: None or ""
    THEN Returned(self)
    ELSE IF sort_by \notin ColumnSet /\ Len(self.filtered) >= 2
    THEN Raised(self, "TypeError")   \* sorted() compares None with None
    ELSE IF sort_by \notin ColumnSet
    THEN Returned(self)
    ELSE Returned([self EXCEPT
             !.filtered = StableSort(self.filtered, sort_by, IsDesc(sort_order))])

\* ListDataSource.paginate
ListPaginate(self, page, size) ==
    IF page # 0 /\ size # 0
    THEN LET start == (page - 1) * size
             end == start + size
         IN  Returned([self EXCEPT !.filtered = PySlice(self.filtered, start, end)])
    ELSE Returned(self)

\* ListDataSource.all
ListAll(self) == self.filtered

\* a count() of the data instead of the view
ListCountOfData(self) == Len(self.data)

\* ListDataSource.count
ListCount(self) == Len(self.filtered)

\* ListDataSource.get_columns
ListGetColumns(self) ==
    IF self.data # <<>> THEN RecordColumns(self.data[1]) ELSE <<>>

(***************************************************************************)
(* PandasDataSource                                                        *)
(***************************************************************************)
\* pd.DataFrame(records): the columns are the keys of the records
DataFrame(records) ==
    [columns |-> IF records = <<>> THEN <<>> ELSE RecordColumns(records[1]),
     rows |-> records]

\* DataFrame.empty
Empty(df) == df.rows = <<>> \/ df.columns = <<>>

HasColumn(df, f) == \E i \in 1..Len(df.columns) : df.columns[i] = f

\* PandasDataSource.__init__
PandasInit == [df |-> None, filtered_df |-> None]

\* re.search(pattern, s, re.IGNORECASE) for patterns of literal characters and
\* "." (str.contains treats its argument as a regular expression)
RegexContains(s, pattern) ==
    \E i \in 1..(Len(s) - Len(pattern) + 1) :
        \A j \in 1..Len(pattern) :
            pattern[j] = "." \/ LowerChar(pattern[j]) = LowerChar(s[i + j - 1])

\* series.astype(str) on one cell
AsTypeStr(row, field) ==
    IF IsNumericColumn(field) THEN StrOfInt(row[field]) ELSE row[field]

\* whether the comparison of a column with val raises TypeError: an order
\* comparison of an int64 column with a str
PandasCompareRaises(field, op, value) ==
    /\ op \in {"<", "<=", ">", ">="}
    /\ IsNumericColumn(field)
    /\ ~IsNumeral(value)

\* a mask whose like matches the float form of the value ("157.0") on a
\* numeric column
PandasMaskCoerced(row, field, op, value) ==
    IF op = "like"
    THEN RegexContains(AsTypeStr(row, field),
                       IF IsNumericColumn(field) /\ IsNumeral(value)
                       THEN value \o <<".", "0">> ELSE value)
    ELSE IF IsNumericColumn(field) /\ IsNumeral(value)
    THEN LET val == ParseNumeral(value)
         IN  CASE op = "="  -> row[field] = val
               [] op = "!=" -> row[field] # val
               [] op = "<"  -> row[field] < val
               [] op = "<=" -> row[field] <= val
               [] op = ">"  -> row[field] > val
               [] op = ">=" -> row[field] >= val
    ELSE IF IsNumericColumn(field)
    THEN op = "!="                    \* int64 == str is False elementwise
    ELSE CASE op = "="  -> row[field] = value
           [] op = "!=" -> row[field] # value
           [] op = "<"  -> StrLess(row[field], value)
           [] op = "<=" -> ~StrLess(value, row[field])
           [] op = ">"  -> StrLess(value, row[field])
           [] op = ">=" -> ~StrLess(row[field], value)

\* the mask of one filter item on one row: val is float(value) on a numeric
\* column unless op is "like" or float() raises ValueError
PandasMask(row, field, op, value) ==
    IF op = "like" THEN RegexContains(AsTypeStr(row, field), value)
    ELSE IF IsNumericColumn(field) /\ IsNumeral(value)
    THEN LET val == ParseNumeral(value)
         IN  CASE op = "="  -> row[field] = val
               [] op = "!=" -> row[field] # val
               [] op = "<"  -> row[field] < val
               [] op = "<=" -> row[field] <= val
               [] op = ">"  -> row[field] > val
               [] op = ">=" -> row[field] >= val
    ELSE IF IsNumericColumn(field)
    THEN op = "!="                    \* int64 == str is False elementwise
    ELSE CASE op = "="  -> row[field] = value
           [] op = "!=" -> row[field] # value
           [] op = "<"  -> StrLess(row[field], value)
           [] op = "<=" -> ~StrLess(value, row[field])
           [] op = ">"  -> StrLess(value, row[field])
           [] op = ">=" -> ~StrLess(row[field], value)

\* one round of the loop of PandasDataSource.filter
PandasApplyItem(fdf, item) ==
    IF ~HasColumn(fdf, item.field) THEN fdf
    ELSE IF item.operator \notin Operators THEN fdf
    ELSE IF PandasCompareRaises(item.field, item.operator, item.value) THEN fdf
    ELSE [fdf EXCEPT !.rows = SelectSeq(fdf.rows, LAMBDA row :
              PandasMask(row, item.field, item.operator, item.value))]

RECURSIVE PandasApply(_, _)
PandasApply(fdf, filters) ==
    IF filters = <<>> THEN fdf
    ELSE PandasApply(PandasApplyItem(fdf, Head(filters)), Tail(filters))

\* PandasDataSource.filter after its _ensure_loaded() call
PandasFilterLoaded(self, filters) ==
    IF self.df = None \/ Empty(self.df[1])
    THEN Returned([self EXCEPT !.filtered_df = self.df])
    ELSE Returned([self EXCEPT !.filtered_df = Some(PandasApply(self.df[1], filters))])

\* whether rows are in the order of field (ascending or descending)
Ordered(rows, field, desc) ==
    \A i \in 1..(Len(rows) - 1) :
        IF desc THEN ~KeyLess(field, rows[i][field], rows[i + 1][field])
        ELSE ~KeyLess(field, rows[i + 1][field], rows[i][field])

RowOrders(rows) ==
    {[i \in 1..Len(rows) |-> rows[p[i]]] :
        p \in {q \in [1..Len(rows) -> 1..Len(rows)] :
                 \A i, j \in 1..Len(rows) : i # j => q[i] # q[j]}}

\* the orders a sort that is not stable may leave the rows in: sort_values
\* uses kind="quicksort", an ORDER BY leaves the order of equal keys open
SortedOrders(rows, field, desc) ==
    {q \in RowOrders(rows) : Ordered(q, field, desc)}

\* PandasDataSource.sort: the instances it may return
PandasSort(self, sort_by, sort_order) ==
    IF sort_by = "" \/ self.filtered_df = None
    THEN {Returned(self)}
    ELSE IF Empty(self.filtered_df[1]) \/ ~HasColumn(self.filtered_df[1], sort_by)
    THEN {Returned(self)}
    ELSE {Returned([self EXCEPT !.filtered_df[1].rows = q]) :
            q \in SortedOrders(self.filtered_df[1].rows, sort_by, IsDesc(sort_order))}

\* a paginate() whose first page starts one page in
PandasPaginateNextPage(self, page, size) ==
    IF self.filtered_df = None
    THEN Returned(self)
    ELSE IF Empty(self.filtered_df[1])
    THEN Returned(self)
    ELSE LET start == page * size
         IN  Returned([self EXCEPT
                 !.filtered_df[1].rows = PySlice(@, start, start + size)])

\* PandasDataSource.paginate
PandasPaginate(self, page, size) ==
    IF self.filtered_df = None
    THEN Returned(self)
    ELSE IF Empty(self.filtered_df[1])
    THEN Returned(self)
    ELSE LET start == (page - 1) * size
         IN  Returned([self EXCEPT
                 !.filtered_df[1].rows = PySlice(@, start, start + size)])

\* a serialize_value that does not go into lists, tuples and dicts
SerializeAnyShallow(val) ==
    CASE val.kind \in {"null", "bool", "int", "float", "str", "dict"} -> val
      [] val.kind = "bytes" -> JStr(Decode(val.chars))
      [] val.kind = "datetime" -> JStr(val.iso)
      [] val.kind = "decimal" -> PyFloat(val.num)
      [] val.kind \in {"list", "tuple"} -> PyList(val.items)
      [] val.kind = "numpy" -> val.item
      [] OTHER -> JStr(val.str)

\* PandasDataSource.serialize_value on any value, branch by branch
RECURSIVE SerializeAny(_)
SerializeAny(val) ==
    CASE val.kind = "null" -> JNull
      [] val.kind \in {"bool", "int", "float", "str"} -> val
      [] val.kind = "bytes" -> JStr(Decode(val.chars))
      [] val.kind = "datetime" -> JStr(val.iso)
      [] val.kind = "decimal" -> PyFloat(val.num)
      [] val.kind \in {"list", "tuple"} ->
             PyList([i \in 1..Len(val.items) |-> SerializeAny(val.items[i])])
      [] val.kind = "dict" ->
             PyDict([k \in DOMAIN val.items |-> SerializeAny(val.items[k])])
      [] val.kind = "numpy" -> SerializeAny(val.item)
      [] OTHER -> JStr(val.str)

\* PandasDataSource.serialize_value on a cell of a column, after
\* astype(object): an int64 cell is an int, an object cell a str, and both
\* are returned as they are; a datetime64 cell is a Timestamp
SerializeValue(field, val) ==
    CASE IsNumericColumn(field) -> val
      [] IsDatetimeColumn(field) -> SerializeAny(val)
      [] OTHER -> val

\* serialize_value on one record: the dict branch
SerializeRecord(row) == [f \in DOMAIN row |-> SerializeValue(f, row[f])]

\* PandasDataSource.all
PandasAll(self) ==
    IF self.filtered_df = None THEN <<>>
    ELSE IF Empty(self.filtered_df[1]) THEN <<>>
    ELSE [i \in 1..Len(self.filtered_df[1].rows) |->
             SerializeRecord(self.filtered_df[1].rows[i])]

\* PandasDataSource.count
PandasCount(self) ==
    IF self.filtered_df # None THEN Len(self.filtered_df[1].rows) ELSE 0

(***************************************************************************)
(* DatabaseDataSource                                                      *)
(***************************************************************************)
\* a Select over the table: its WHERE criteria, ORDER BY, LIMIT and OFFSET
Select(table) ==
    [table |-> table, whereclause |-> <<>>, order_by |-> None,
     limit |-> None, offset |-> None]

\* DatabaseDataSource.__init__
DbInit(stmt) == [base_stmt |-> stmt, stmt |-> stmt]

\* DatabaseDataSource.build_filter: the expression, or None
DbBuildFilter(field, op, value) ==
    IF IsNumericColumn(field)
    THEN IF ~IsNumeral(value) THEN None             \* int(value): ValueError
         ELSE IF op \in Operators \ {"like"}
         THEN Some([field |-> field, operator |-> op, int |-> ParseNumeral(value)])
         ELSE None                                  \* like on an int, or no such operator
    ELSE IF op \in Operators
         THEN Some([field |-> field, operator |-> op, str |-> value])
         ELSE None

\* the loop of DatabaseDataSource.filter; getattr() on selected_columns
\* raises AttributeError for a name that is no column
RECURSIVE DbApply(_, _)
DbApply(stmt, filters) ==
    IF filters = <<>> THEN [stmt |-> stmt, exc |-> "none"]
    ELSE LET item == Head(filters)
             expr == DbBuildFilter(item.field, item.operator, item.value)
         IN  IF item.field \notin ColumnSet
             THEN [stmt |-> stmt, exc |-> "AttributeError"]
             ELSE IF expr # None
             THEN DbApply([stmt EXCEPT !.whereclause = Append(@, expr[1])],
                          Tail(filters))
             ELSE DbApply(stmt, Tail(filters))

\* DatabaseDataSource.filter
DbFilter(self, filters) ==
    LET r == DbApply(self.base_stmt, filters)
    IN  [self |-> [self EXCEPT !.stmt = r.stmt], exc |-> r.exc]

\* DatabaseDataSource.sort
DbSort(self, sort_by, sort_order) ==
    IF sort_by = "" \/ sort_by \notin ColumnSet
    THEN Returned(self)
    ELSE Returned([self EXCEPT
             !.stmt.order_by = Some([col |-> sort_by, desc |-> IsDesc(sort_order)])])

\* DatabaseDataSource.paginate
DbPaginate(self, page, size) ==
    IF page # 0 /\ size # 0
    THEN Returned([self EXCEPT !.stmt.limit = Some(size),
                               !.stmt.offset = Some((page - 1) * size)])
    ELSE Returned(self)

\* s ILIKE p: % is any run of characters, _ any one character
RECURSIVE LikeMatch(_, _)
LikeMatch(p, s) ==
    IF p = <<>> THEN s = <<>>
    ELSE IF Head(p) = "%"
    THEN \E k \in 0..Len(s) : LikeMatch(Tail(p), SubSeq(s, k + 1, Len(s)))
    ELSE /\ s # <<>>
         /\ Head(p) = "_" \/ LowerChar(Head(p)) = LowerChar(Head(s))
         /\ LikeMatch(Tail(p), Tail(s))

\* one WHERE criterion on one row
DbHolds(expr, row) ==
    IF IsNumericColumn(expr.field)
    THEN CASE expr.operator = "="  -> row[expr.field] = expr.int
           [] expr.operator = "!=" -> row[expr.field] # expr.int
           [] expr.operator = "<"  -> row[expr.field] < expr.int
           [] expr.operator = "<=" -> row[expr.field] <= expr.int
           [] expr.operator = ">"  -> row[expr.field] > expr.int
           [] expr.operator = ">=" -> row[expr.field] >= expr.int
    ELSE CASE expr.operator = "="  -> row[expr.field] = expr.str
           [] expr.operator = "!=" -> row[expr.field] # expr.str
           [] expr.operator = "<"  -> StrLess(row[expr.field], expr.str)
           [] expr.operator = "<=" -> ~StrLess(expr.str, row[expr.field])
           [] expr.operator = ">"  -> StrLess(expr.str, row[expr.field])
           [] expr.operator = ">=" -> ~StrLess(row[expr.field], expr.str)
           [] expr.operator = "like" ->
                  LikeMatch(<<"%">> \o expr.str \o <<"%">>, row[expr.field])

\* the row sequences the database may answer the statement with
Execute(stmt) ==
    LET matching == SelectSeq(stmt.table, LAMBDA row :
                        \A i \in 1..Len(stmt.whereclause) :
                            DbHolds(stmt.whereclause[i], row))
        orders == IF stmt.order_by = None THEN {matching}
                  ELSE SortedOrders(matching, stmt.order_by[1].col,
                                    stmt.order_by[1].desc)
        offset == IF stmt.offset = None THEN 0 ELSE stmt.offset[1]
        window(q) == IF stmt.limit = None THEN PySlice(q, offset, Len(q))
                     ELSE PySlice(q, offset, offset + stmt.limit[1])
    IN  {window(q) : q \in orders}

\* DatabaseDataSource.all: the lists it may return
DbAll(self) == Execute(self.stmt)

\* DatabaseDataSource.count: SELECT count(*) FROM (stmt)
DbCount(self) == Len(CHOOSE q \in Execute(self.stmt) : TRUE)

(***************************************************************************)
(* Cache backends (cache.py)                                               *)
(***************************************************************************)
\* a value json.dumps writes without the help of an encoder's default()
JsonSafe(value) == value.kind \in {"null", "int", "str", "rows"}

\* DataFrame.to_dict(orient="records")
ToDictRecords(df) == JRows(df.rows)

\* whether pd.DataFrame(value) builds a frame; a scalar raises ValueError
Coercible(value) == value.kind = "rows"

\* the outcome of a backend call: the exception it raised, or "none", and
\* the value returned (JNull is Python's None)
Outcome(exc, value) == [exc |-> exc, ret |-> value]

\* _TablesJSONEncoder and json.dumps: the JSON text of a value.  A datetime
\* is written as its isoformat() string, so it is read back as a str.
JsonDumps(value) ==
    [json |-> IF value.kind = "datetime" THEN JStr(value.iso) ELSE value]

\* json.loads
JsonLoads(data) == data.json

\* pickle.dump of the dict {"ttl": ttl, "value": value}: the whole byte string
PickleDump(ttl, value) == [bytes |-> "whole", ttl |-> ttl, value |-> value]

\* the file after open(path, "wb") and before any byte is written
EmptyBytes == [bytes |-> "empty"]

\* the file with only a first part of the pickle written
PartBytes == [bytes |-> "part"]

\* pickle.load: the dict, or EOFError (nothing to read) or UnpicklingError
\* (pickle data was truncated)
PickleLoad(content) ==
    CASE content.bytes = "whole" ->
             [exc |-> "none", ttl |-> content.ttl, value |-> content.value]
      [] content.bytes = "empty" -> [exc |-> "EOFError"]
      [] content.bytes = "part"  -> [exc |-> "UnpicklingError"]

\* hashlib.sha256(key.encode("utf-8")).hexdigest(): distinct keys, distinct digests
Sha256(text) == <<"sha256", text>>

\* PickleCacheBackend._cache_path
CachePath(key) == Sha256(key)

\* RedisCacheBackend._PREFIX
RedisPrefix == "ckanext:tables:"

\* RedisCacheBackend._full_key
FullKey(key) == <<RedisPrefix, key>>

\* CachedDataSourceMixin.get_cache_key of a source with this url
UrlKey(url) == <<"url-", url>>

\* get_cache_key of a source with a resource of this id
ResourceKey(id) == <<"resource-", id>>

Keys == {UrlKey("http://a/data.csv"), ResourceKey("r1")}

Paths == {CachePath(key) : key \in Keys}

FullKeys == {FullKey(key) : key \in Keys}

\* values handed to set(): a number, a list of records, a datetime
CachedRows == <<[id |-> 99, age |-> 99, name |-> <<"B", "o">>]>>

Values == {JInt(7), JRows(CachedRows), PyDatetime(<<"2", "0", "2", "5">>)}


\* a path of the cache directory with no file
NoFile == [exists |-> FALSE]

\* PickleCacheBackend._get_ttl: EOFError is none of the exceptions it catches
PickleGetTtl(file) ==
    LET data == PickleLoad(file.content)
    IN  CASE data.exc = "none"            -> [exc |-> "none", ttl |-> data.ttl]
          [] data.exc = "UnpicklingError" -> [exc |-> "none", ttl |-> 0]
          [] OTHER                        -> [exc |-> data.exc]

\* a get() that still returns an entry when now - mtime = ttl
PickleGetLate(dir, t, key) ==
    LET file == dir[CachePath(key)]
    IN  IF ~file.exists THEN Outcome("none", JNull)
        ELSE LET ttl == PickleGetTtl(file)
                 data == PickleLoad(file.content)
             IN  IF ttl.exc # "none" THEN Outcome(ttl.exc, JNull)
                 ELSE IF t - file.mtime > ttl.ttl THEN Outcome("none", JNull)
                 ELSE IF data.exc = "none" THEN Outcome("none", data.value)
                 ELSE IF data.exc = "UnpicklingError" THEN Outcome("none", JNull)
                 ELSE Outcome(data.exc, JNull)

\* PickleCacheBackend.get on the directory dir at time t
PickleGet(dir, t, key) ==
    LET file == dir[CachePath(key)]
    IN  IF ~file.exists THEN Outcome("none", JNull)
        ELSE LET ttl == PickleGetTtl(file)
                 data == PickleLoad(file.content)
             IN  IF ttl.exc # "none" THEN Outcome(ttl.exc, JNull)
                 ELSE IF t - file.mtime >= ttl.ttl THEN Outcome("none", JNull)
                 ELSE IF data.exc = "none" THEN Outcome("none", data.value)
                 ELSE IF data.exc = "UnpicklingError" THEN Outcome("none", JNull)
                 ELSE Outcome(data.exc, JNull)

\* a set() that leaves the ttl out of the file
PickleSetNoTtl(dir, t, key, value, ttl) ==
    [dir EXCEPT ![CachePath(key)] =
        [exists |-> TRUE, content |-> PickleDump(0, value), mtime |-> t]]

\* a set() that keeps the ttl of the file it overwrites
PickleSetKeepsTtl(dir, t, key, value, ttl) ==
    LET file == dir[CachePath(key)]
        old == IF file.exists /\ file.content.bytes = "whole"
               THEN file.content.ttl ELSE ttl
    IN  [dir EXCEPT ![CachePath(key)] =
            [exists |-> TRUE, content |-> PickleDump(old, value), mtime |-> t]]

\* PickleCacheBackend.set on the directory dir at time t: the directory after
PickleSet(dir, t, key, value, ttl) ==
    [dir EXCEPT ![CachePath(key)] =
        [exists |-> TRUE, content |-> PickleDump(ttl, value), mtime |-> t]]

\* PickleCacheBackend.set cut short after open(path, "wb"), or after a first
\* part of the pickle reached the file
PickleSetCut(dir, t, key, content) ==
    [dir EXCEPT ![CachePath(key)] =
        [exists |-> TRUE, content |-> content, mtime |-> t]]

\* os.remove(path): FileNotFoundError when there is no file
OsRemove(dir, path) ==
    IF dir[path].exists
    THEN [dir |-> [dir EXCEPT ![path] = NoFile], exc |-> "none"]
    ELSE [dir |-> dir, exc |-> "FileNotFoundError"]

\* a delete() that removes nothing
PickleDeleteNothing(dir, key) == dir

\* a delete() that empties the directory
PickleDeleteAll(dir, key) == [path \in DOMAIN dir |-> NoFile]

\* PickleCacheBackend.delete: FileNotFoundError is suppressed
PickleDelete(dir, key) == OsRemove(dir, CachePath(key)).dir

\* the exception that leaves PickleCacheBackend.delete
PickleDeleteExc(dir, key) ==
    LET exc == OsRemove(dir, CachePath(key)).exc
    IN  IF exc = "FileNotFoundError" THEN "none" ELSE exc

\* no value under a Redis key
NoEntry == [present |-> FALSE]

\* conn.get: the bytes under the key, unless the server expired them
RedisData(db, t, fullkey) ==
    IF db[fullkey].present /\ t < db[fullkey].expire_at
    THEN Some(db[fullkey].data) ELSE None

\* RedisCacheBackend.get
RedisGet(db, t, key) ==
    LET data == RedisData(db, t, FullKey(key))
    IN  IF data = None THEN Outcome("none", JNull)
        ELSE Outcome("none", JsonLoads(data[1]))

\* RedisCacheBackend.set: SETEX refuses an expire time that is not positive
RedisSet(db, t, key, value, ttl) ==
    IF ttl <= 0 THEN [db |-> db, exc |-> "ResponseError"]
    ELSE [db |-> [db EXCEPT ![FullKey(key)] =
                     [present |-> TRUE, data |-> JsonDumps(value),
                      expire_at |-> t + ttl]],
          exc |-> "none"]

\* RedisCacheBackend.delete
RedisDelete(db, key) == [db EXCEPT ![FullKey(key)] = NoEntry]

\* CacheBackend.get of the backend b
CacheGet(b, dir, db, t, key) ==
    IF b = "pickle" THEN PickleGet(dir, t, key) ELSE RedisGet(db, t, key)

(***************************************************************************)
(* PandasDataSource._ensure_loaded                                         *)
(***************************************************************************)
\* the call did nothing outside the instance
NoEffects == [read |-> FALSE, fetched |-> FALSE, wrote |-> None]

\* an _ensure_loaded that does not look at what the cache returned
EnsureLoadedNoCache(self, mixin, got, fetch, setexc) ==
    IF self.df # None
    THEN [self |-> self, exc |-> "none"] @@ NoEffects
    ELSE IF fetch.exc # "none"
    THEN [self |-> self, exc |-> fetch.exc, read |-> mixin, fetched |-> TRUE,
          wrote |-> None]
    ELSE LET df == Some(fetch.df)
         IN  [self |-> [self EXCEPT !.df = df, !.filtered_df = df],
              exc |-> "none", read |-> mixin, fetched |-> TRUE,
              wrote |-> IF mixin THEN Some(ToDictRecords(fetch.df)) ELSE None]

\* an _ensure_loaded that fetches on a miss and never calls cache_backend.set
EnsureLoadedNoSet(self, mixin, got, fetch, setexc) ==
    IF self.df # None
    THEN [self |-> self, exc |-> "none"] @@ NoEffects
    ELSE IF mixin /\ got.exc # "none"
    THEN [self |-> self, exc |-> got.exc, read |-> TRUE, fetched |-> FALSE,
          wrote |-> None]
    ELSE IF mixin /\ got.ret # JNull /\ Coercible(got.ret)
    THEN LET df == Some(DataFrame(got.ret.rows))
         IN  [self |-> [self EXCEPT !.df = df, !.filtered_df = df],
              exc |-> "none", read |-> TRUE, fetched |-> FALSE, wrote |-> None]
    ELSE IF fetch.exc # "none"
    THEN [self |-> self, exc |-> fetch.exc, read |-> mixin, fetched |-> TRUE,
          wrote |-> None]
    ELSE LET df == Some(fetch.df)
         IN  [self |-> [self EXCEPT !.df = df, !.filtered_df = df],
              exc |-> "none", read |-> mixin, fetched |-> TRUE, wrote |-> None]

\* an _ensure_loaded without 'if self._df is not None: return'
EnsureLoadedAgain(self, mixin, got, fetch, setexc) ==
    IF mixin /\ got.exc # "none"
    THEN [self |-> self, exc |-> got.exc, read |-> TRUE, fetched |-> FALSE,
          wrote |-> None]
    ELSE IF mixin /\ got.ret # JNull /\ Coercible(got.ret)
    THEN LET df == Some(DataFrame(got.ret.rows))
         IN  [self |-> [self EXCEPT !.df = df, !.filtered_df = df],
              exc |-> "none", read |-> TRUE, fetched |-> FALSE, wrote |-> None]
    ELSE IF fetch.exc # "none"
    THEN [self |-> self, exc |-> fetch.exc, read |-> mixin, fetched |-> TRUE,
          wrote |-> None]
    ELSE LET df == Some(fetch.df)
         IN  [self |-> [self EXCEPT !.df = df, !.filtered_df = df],
              exc |-> "none", read |-> mixin, fetched |-> TRUE,
              wrote |-> IF mixin THEN Some(ToDictRecords(fetch.df)) ELSE None]

\* _ensure_loaded.  mixin: isinstance(self, CachedDataSourceMixin);
\* got: the outcome of cache_backend.get, [exc, ret];
\* fetch: the outcome of fetch_dataframe, [exc, df]; setexc: the exception
\* cache_backend.set raises, or "none".  The result names the instance, the
\* exception that leaves the call, and which of get, fetch and set ran.
EnsureLoaded(self, mixin, got, fetch, setexc) ==
    IF self.df # None
    THEN [self |-> self, exc |-> "none"] @@ NoEffects
    ELSE IF mixin /\ got.exc # "none"
    THEN [self |-> self, exc |-> got.exc, read |-> TRUE, fetched |-> FALSE,
          wrote |-> None]
    ELSE IF mixin /\ got.ret # JNull /\ Coercible(got.ret)
    THEN LET df == Some(DataFrame(got.ret.rows))
         IN  [self |-> [self EXCEPT !.df = df, !.filtered_df = df],
              exc |-> "none", read |-> TRUE, fetched |-> FALSE, wrote |-> None]
    ELSE IF fetch.exc # "none"
    THEN [self |-> self, exc |-> fetch.exc, read |-> mixin, fetched |-> TRUE,
          wrote |-> None]
    ELSE LET df == Some(fetch.df)
             value == Some(ToDictRecords(fetch.df))
         IN  IF mixin /\ setexc \notin {"none", "OSError"}
             THEN [self |-> [self EXCEPT !.df = df], exc |-> setexc,
                   read |-> TRUE, fetched |-> TRUE, wrote |-> value]
             ELSE [self |-> [self EXCEPT !.df = df, !.filtered_df = df],
                   exc |-> "none", read |-> mixin, fetched |-> TRUE,
                   wrote |-> IF mixin THEN value ELSE None]

\* a fetch_dataframe that returns the frame of the rows
Fetched(rows) == [exc |-> "none", df |-> DataFrame(rows)]

\* cache_backend.get found nothing
Miss == [exc |-> "none", ret |-> JNull]

\* PandasDataSource.filter
PandasFilter(self, filters, mixin, got, fetch, setexc) ==
    LET loaded == EnsureLoaded(self, mixin, got, fetch, setexc)
    IN  IF loaded.exc # "none" THEN loaded
        ELSE PandasFilterLoaded(loaded.self, filters) @@ loaded

\* PandasDataSource.get_columns: the call's outcome and the list returned
PandasGetColumns(self, mixin, got, fetch, setexc) ==
    LET loaded == EnsureLoaded(self, mixin, got, fetch, setexc)
    IN  loaded @@ [ret |-> IF loaded.self.df # None
                           THEN loaded.self.df[1].columns ELSE <<>>]

(***************************************************************************)
(* BaseResourceDataSource and CsvUrlDataSource                             *)
(***************************************************************************)
\* BaseResourceDataSource.cache_ttl
CacheTtl == 300

\* BaseResourceDataSource.__init__ with a url or a resource; no url is ""
NewResourceSource(url, resource) ==
    PandasInit @@ [url |-> url, resource |-> resource, source_path |-> ""]

\* BaseResourceDataSource.get_cache_key
GetCacheKey(self) ==
    IF self.resource # None THEN ResourceKey(self.resource[1].id)
    ELSE UrlKey(self.url)

\* the exceptions get_source_path catches around the uploader
UploaderErrors == {"OSError", "TypeError", "ValidationError", "ObjectNotFound"}

\* a get_source_path that tries the directly supplied url first
GetSourcePathUrlFirst(self, upload) ==
    IF self.source_path # ""
    THEN [exc |-> "none", path |-> self.source_path]
    ELSE IF self.url # "" THEN [exc |-> "none", path |-> self.url]
    ELSE IF self.resource = None THEN [exc |-> "ValueError", path |-> ""]
    ELSE IF self.resource[1].url_type = "upload"
    THEN IF upload.exc = "none"
         THEN [exc |-> "none", path |-> upload.path]
         ELSE [exc |-> upload.exc, path |-> ""]
    ELSE IF self.resource[1].url # ""
    THEN [exc |-> "none", path |-> self.resource[1].url]
    ELSE [exc |-> "ValueError", path |-> ""]

\* BaseResourceDataSource.get_source_path.  upload: the outcome of
\* get_resource_uploader(...).get_path(...), [exc, path].  The except branch
\* reads self.resource_id, an attribute no instance has.
GetSourcePath(self, upload) ==
    LET fallback == IF self.url # ""
                    THEN [exc |-> "none", path |-> self.url]
                    ELSE [exc |-> "ValueError", path |-> ""]
    IN  IF self.source_path # ""
        THEN [exc |-> "none", path |-> self.source_path]
        ELSE IF self.resource = None THEN fallback
        ELSE IF self.resource[1].url_type = "upload"
        THEN IF upload.exc = "none"
             THEN [exc |-> "none", path |-> upload.path]
             ELSE IF upload.exc \in UploaderErrors
             THEN [exc |-> "AttributeError", path |-> ""]
             ELSE [exc |-> upload.exc, path |-> ""]
        ELSE IF self.resource[1].url # ""
        THEN [exc |-> "none", path |-> self.resource[1].url]
        ELSE fallback

\* whether get_source_path calls uploader.get_resource_uploader(...).get_path
UploaderAsked(self) ==
    /\ self.source_path = ""
    /\ self.resource # None
    /\ self.resource[1].url_type = "upload"

\* BaseResourceDataSource.__init__ with its check of the arguments: the
\* exception it raises and the instance, if any
ResourceInit(url, resource) ==
    IF url = "" /\ resource = None
    THEN [exc |-> "ValueError", self |-> None]
    ELSE [exc |-> "none", self |-> Some(NewResourceSource(url, resource))]

\* the formats guess_data_source has a data source class for
SupportedFormats == {<<"c", "s", "v">>, <<"x", "l", "s", "x">>, <<"o", "r", "c">>,
                     <<"p", "a", "r", "q", "u", "e", "t">>,
                     <<"f", "e", "a", "t", "h", "e", "r">>}

\* "Unsupported format: "
UnsupportedPrefix ==
    <<"U", "n", "s", "u", "p", "p", "o", "r", "t", "e", "d", " ",
      "f", "o", "r", "m", "a", "t", ":", " ">>

\* a guess_data_source that takes a format it does not know for csv
GuessDataSourceDefaultCsv(resource) ==
    [exc |-> "none", message |-> <<>>,
     self |-> Some(NewResourceSource(resource.url, None))]

\* helpers.guess_data_source.  The class is called with url= and
\* resource_id=; __init__ takes url and resource, so the call of a class
\* raises TypeError (unexpected keyword argument).
GuessDataSource(resource) ==
    LET fmt == Lower(resource.format)
    IN  IF fmt \in SupportedFormats
        THEN [exc |-> "TypeError", message |-> <<>>, self |-> None]
        ELSE [exc |-> "ValueError", message |-> UnsupportedPrefix \o fmt,
              self |-> None]

\* CsvUrlDataSource.fetch_dataframe.  read: the outcome of pd.read_csv on the
\* source path, [exc, df].  The except branch calls get_source_path() again
\* for its log line, so a path that cannot be resolved raises out of it.
\* The result tells what failed: "path", "read" or "none".
FetchDataframe(self, upload, read) ==
    LET first == GetSourcePath(self, upload)
    IN  IF first.exc # "none"
        THEN [exc |-> GetSourcePath(self, upload).exc, df |-> DataFrame(<<>>),
              source_path |-> "", failure |-> "path"]
        ELSE IF read.exc # "none"
        THEN [exc |-> "none", df |-> DataFrame(<<>>),
              source_path |-> first.path, failure |-> "read"]
        ELSE [exc |-> "none", df |-> read.df, source_path |-> first.path,
              failure |-> "none"]

\* the constructor arguments of the resource data sources: a url; a resource
\* with neither a url nor an upload; an uploaded resource
SourcePool == {
    [url |-> "http://a/data.csv", resource |-> None],
    [url |-> "", resource |-> Some([id |-> "r1", url_type |-> "", url |-> ""])],
    [url |-> "", resource |-> Some([id |-> "r1", url_type |-> "upload",
                                    url |-> ""])] }

\* what pd.read_csv may do: parse the rows, fail to reach the file, or fail
\* to parse it
ReadOutcomes == {
    [exc |-> "none", df |-> DataFrame(<<CHOOSE row \in RowPool : row.id = 1>>)],
    [exc |-> "URLError"],
    [exc |-> "ParserError"] }

\* what the uploader may do: give the path of the file, or fail
UploadOutcomes == {
    [exc |-> "none", path |-> "/storage/r1"],
    [exc |-> "OSError"] }

\* the filter() arguments given to resource data sources
LoadFilters == {q \in FilterLists : Len(q) = 0 \/ (Len(q) = 1 /\ q[1].field = "age")}

(***************************************************************************)
(* States at rest: the parts of the state a specification does not use     *)
(***************************************************************************)
\* no call made yet
NoCall == [op |-> "none"]

\* an empty cache directory and an empty Redis database at time 0
CacheAtRest ==
    /\ now = 0
    /\ files = [path \in Paths |-> NoFile]
    /\ redis = [fullkey \in FullKeys |-> NoEntry]
    /\ call = NoCall
    /\ written = [key \in Keys |-> NoCall]

\* no process inside set() or get()
RaceAtRest ==
    /\ writer = [pc |-> "idle"]
    /\ reader = [pc |-> "idle"]
    /\ procs = <<>>
    /\ cachedir = None

\* no resource data source
LoadAtRest ==
    /\ inst = None
    /\ lcall = NoCall
    /\ effects = None

\* no list, frame or statement data source
SrcAtRest ==
    /\ variant = "none"
    /\ base = <<>>
    /\ ds = None
    /\ raised = "none"
    /\ last = "init"
    /\ cur = None
    /\ paged = FALSE
    /\ ret = None
    /\ asked = None

(***************************************************************************)
(* One data source instance under any sequence of calls                    *)
(***************************************************************************)
Variants == {"list", "frame", "db"}

\* a new instance over the rows; the frame variant is a PandasDataSource
\* subclass without the cache mixin whose fetch_dataframe returns the rows
NewSource(v, rows) ==
    CASE v = "list"  -> ListInit(rows)
      [] v = "frame" -> PandasInit
      [] v = "db"    -> DbInit(Select(rows))

\* filter(filters) on an instance of variant v over the rows
SourceFilter(v, self, rows, filters) ==
    CASE v = "list"  -> ListFilter(self, filters)
      [] v = "frame" -> LET r == PandasFilter(self, filters, FALSE, Miss,
                                              Fetched(rows), "none")
                        IN  [self |-> r.self, exc |-> r.exc]
      [] v = "db"    -> DbFilter(self, filters)

\* sort(sort_by, sort_order): the outcomes it may have
SourceSort(v, self, sort_by, sort_order) ==
    CASE v = "list"  -> {ListSort(self, sort_by, sort_order)}
      [] v = "frame" -> PandasSort(self, sort_by, sort_order)
      [] v = "db"    -> {DbSort(self, sort_by, sort_order)}

\* paginate(page, size)
SourcePaginate(v, self, page, size) ==
    CASE v = "list"  -> ListPaginate(self, page, size)
      [] v = "frame" -> PandasPaginate(self, page, size)
      [] v = "db"    -> DbPaginate(self, page, size)

\* all(): the lists it may return
SourceAll(v, self) ==
    CASE v = "list"  -> {ListAll(self)}
      [] v = "frame" -> {PandasAll(self)}
      [] v = "db"    -> DbAll(self)

\* count()
SourceCount(v, self) ==
    CASE v = "list"  -> ListCount(self)
      [] v = "frame" -> PandasCount(self)
      [] v = "db"    -> DbCount(self)

SortFields == {"", "age", "name", "zip"}

\* sort_order: None (read as ""), "asc", "DESC"
SortOrders == {<<>>, <<"a", "s", "c">>, <<"D", "E", "S", "C">>}

\* what filter(filters) gives on a new instance over the rows: the exception,
\* the lists all() may return and the count
Fresh(v, rows, filters) ==
    LET r == SourceFilter(v, NewSource(v, rows), rows, filters)
    IN  [exc |-> r.exc, all |-> SourceAll(v, r.self),
         count |-> SourceCount(v, r.self)]

InitSrc ==
    /\ variant \in Variants
    /\ base \in Bases
    /\ ds = NewSource(variant, base)
    /\ raised = "none"
    /\ last = "init"
    /\ cur = None
    /\ paged = FALSE
    /\ ret = None
    /\ asked = None
    /\ backend = "none"
    /\ CacheAtRest
    /\ RaceAtRest
    /\ LoadAtRest

FilterCall(filters) ==
    LET r == SourceFilter(variant, ds, base, filters)
    IN  /\ ds' = r.self
        /\ raised' = r.exc
        /\ last' = IF paged THEN "refilter" ELSE "filter"
        /\ cur' = Some(Fresh(variant, base, filters))
        /\ paged' = FALSE
        /\ ret' = None
        /\ UNCHANGED <<variant, base, cacheVars, raceVars, loadVars>>

SortCall(sort_by, sort_order) ==
    \E r \in SourceSort(variant, ds, sort_by, sort_order) :
        /\ ds' = r.self
        /\ raised' = r.exc
        /\ last' = "sort"
        /\ ret' = None
        /\ UNCHANGED <<variant, base, cur, paged, asked, cacheVars, raceVars,
                       loadVars>>

PaginateCall(page, size) ==
    LET r == SourcePaginate(variant, ds, page, size)
    IN  /\ ds' = r.self
        /\ raised' = r.exc
        /\ last' = "paginate"
        /\ paged' = TRUE
        /\ ret' = None
        /\ UNCHANGED <<variant, base, cur, asked, cacheVars, raceVars, loadVars>>

AllCall ==
    \E rows \in SourceAll(variant, ds) :
        /\ ret' = Some([op |-> "all", rows |-> rows])
        /\ UNCHANGED <<variant, base, ds, raised, last, cur, paged, asked,
                   cacheVars, raceVars, loadVars>>

CountCall ==
    /\ ret' = Some([op |-> "count", count |-> SourceCount(variant, ds)])
    /\ UNCHANGED <<variant, base, ds, raised, last, cur, paged, asked,
                   cacheVars, raceVars, loadVars>>

NextSrc ==
    \/ \E filters \in FilterLists : FilterCall(filters) /\ UNCHANGED asked
    \/ \E sort_by \in SortFields, sort_order \in SortOrders :
           SortCall(sort_by, sort_order)
    \/ \E page \in 0..MaxPage, size \in 0..MaxSize : PaginateCall(page, size)
    \/ AllCall
    \/ CountCall

SpecSrc == InitSrc /\ [][NextSrc]_vars

(***************************************************************************)
(* Claims about the data sources                                           *)
(***************************************************************************)
\* C1: whatever filter, sort and paginate calls came before it, a filter(F)
\* call leaves the instance giving the same exception, the same all() and
\* the same count() as filter(F) on a new instance over the same rows.
C1_FilterResets ==
    last \in {"filter", "refilter"} =>
        /\ cur # None
        /\ raised = cur[1].exc
        /\ SourceAll(variant, ds) = cur[1].all
        /\ SourceCount(variant, ds) = cur[1].count

\* a filter() after a paginate() on an instance of each variant, with every
\* row of a full backing store back in the view
C1_Witness ==
    /\ last = "refilter"
    /\ Len(base) = MaxRows
    /\ SourceCount(variant, ds) = Len(base)
    /\ cur[1].all = {base}

\* C2, as claimed: after filter(F) and any later sort and paginate calls,
\* count() is the number of rows of the backing store that match F.
C2_CountIgnoresPaginate ==
    (cur # None /\ cur[1].exc = "none") =>
        SourceCount(variant, ds) = cur[1].count

\* C2, amended: count() is the number of rows of the current view, which is
\* the number of rows that match F as long as paginate was not called since
\* filter(F), whatever sort calls were made.
C2_CountOfView ==
    /\ \A rows \in SourceAll(variant, ds) : SourceCount(variant, ds) = Len(rows)
    /\ (cur # None /\ cur[1].exc = "none" /\ ~paged) =>
           SourceCount(variant, ds) = cur[1].count

\* a filter that keeps some rows and drops some, then a sort
C2_Witness ==
    /\ last = "sort"
    /\ cur # None
    /\ ~paged
    /\ SourceCount(variant, ds) = 1
    /\ Len(base) = 2

\* the rows of q at the 0-based positions lo, lo + 1, ... below hi
RowsAt(q, lo, hi) ==
    LET end == IF hi < Len(q) THEN hi ELSE Len(q)
    IN  IF end <= lo THEN <<>> ELSE [i \in 1..(end - lo) |-> q[lo + i]]

\* C3: for page >= 1 and size >= 1, paginate(page, size) on a filtered and
\* sorted view does not raise, and all() then returns at most size rows: the
\* rows of that view at positions [(page-1)*size, page*size), none when the
\* window lies past the end.
C3_PageWindow ==
    [][\A page \in 1..MaxPage, size \in 1..MaxSize :
          (PaginateCall(page, size) /\ ~paged) =>
              /\ raised' = "none"
              /\ \A rows \in SourceAll(variant', ds') :
                    /\ Len(rows) <= size
                    /\ \E view \in SourceAll(variant, ds) :
                          rows = RowsAt(view, (page - 1) * size, page * size)
      ]_vars

\* a page past the first one that holds the second row of a frame
C3_Witness ==
    /\ variant = "frame"
    /\ last = "paginate"
    /\ Len(base) = 2
    /\ SourceAll(variant, ds) = {<<base[2]>>}

(***************************************************************************)
(* One cache backend under any sequence of calls, with time passing        *)
(***************************************************************************)
InitCache ==
    /\ backend \in {"pickle", "redis"}
    /\ CacheAtRest
    /\ RaceAtRest
    /\ LoadAtRest
    /\ SrcAtRest

\* a second passes
Tick ==
    /\ now < MaxTime
    /\ now' = now + 1
    /\ call' = NoCall
    /\ UNCHANGED <<backend, files, redis, written, srcVars, raceVars, loadVars>>

\* set(key, value, ttl); the record of the call keeps over, the value the
\* caller saw under the key before the call
SetOver(key, value, ttl, over) ==
    LET db == RedisSet(redis, now, key, value, ttl)
        exc == IF backend = "pickle" THEN "none" ELSE db.exc
    IN  /\ files' = IF backend = "pickle"
                    THEN PickleSet(files, now, key, value, ttl) ELSE files
        /\ redis' = IF backend = "redis" THEN db.db ELSE redis
        /\ call' = [op |-> "set", key |-> key, value |-> value, ttl |-> ttl,
                    exc |-> exc,
                    over |-> over]
        /\ written' = IF exc = "none"
                      THEN [written EXCEPT ![key] =
                               [op |-> "set", value |-> value, ttl |-> ttl,
                                time |-> now]]
                      ELSE written
        /\ UNCHANGED <<backend, now, srcVars, raceVars, loadVars>>

\* set(key, value, ttl), with what get(key) returned right before it
SetCall(key, value, ttl) ==
    SetOver(key, value, ttl, CacheGet(backend, files, redis, now, key).ret)

\* set(key, ...) of the pickle backend that ends after open(path, "wb") or
\* part of the way through pickle.dump: the write fails with an OSError that
\* set() logs (a full disk), or the process is killed
SetCutCall(key, content) ==
    /\ backend = "pickle"
    /\ files' = PickleSetCut(files, now, key, content)
    /\ call' = [op |-> "cut", key |-> key]
    /\ written' = [written EXCEPT ![key] = [op |-> "cut"]]
    /\ UNCHANGED <<backend, now, redis, srcVars, raceVars, loadVars>>

\* get(key)
GetCall(key) ==
    /\ call' = [op |-> "get", key |-> key]
                   @@ CacheGet(backend, files, redis, now, key)
    /\ UNCHANGED <<backend, now, files, redis, written, srcVars, raceVars,
                   loadVars>>

\* delete(key)
DeleteCall(key) ==
    /\ files' = IF backend = "pickle" THEN PickleDelete(files, key) ELSE files
    /\ redis' = IF backend = "redis" THEN RedisDelete(redis, key) ELSE redis
    /\ call' = [op |-> "delete", key |-> key,
                exc |-> IF backend = "pickle" THEN PickleDeleteExc(files, key)
                        ELSE "none",
                found |-> IF backend = "pickle" THEN files[CachePath(key)].exists
                          ELSE redis[FullKey(key)].present]
    /\ written' = [written EXCEPT ![key] = [op |-> "delete"]]
    /\ UNCHANGED <<backend, now, srcVars, raceVars, loadVars>>

NextCache ==
    \/ Tick
    \/ \E key \in Keys, value \in Values, ttl \in 0..MaxTtl :
           SetCall(key, value, ttl)
    \/ \E key \in Keys, content \in {EmptyBytes, PartBytes} :
           SetCutCall(key, content)
    \/ \E key \in Keys : GetCall(key)
    \/ \E key \in Keys : DeleteCall(key)

SpecCache == InitCache /\ [][NextCache]_vars

(***************************************************************************)
(* Claims about the cache backends                                         *)
(***************************************************************************)
\* what get(key) returns in the current state
GetNow(key) == CacheGet(backend, files, redis, now, key)

\* the call just made is a set() of a JSON-safe value
JustSet == call.op = "set" /\ JsonSafe(call.value)

\* C4, as claimed: on either backend, for every key, JSON-safe value and ttl,
\* a get(k) right after set(k, v, ttl) returns v.
C4_RoundTrip ==
    JustSet => /\ call.exc = "none"
               /\ GetNow(call.key) = Outcome("none", call.value)

\* C4, amended: the round trip holds for every ttl >= 1.  With ttl = 0 the
\* pickle backend's get(k) returns None and the Redis backend's set raises.
C4_RoundTripPositiveTtl ==
    /\ (JustSet /\ call.ttl >= 1) =>
           /\ call.exc = "none"
           /\ GetNow(call.key) = Outcome("none", call.value)
    /\ (JustSet /\ call.ttl = 0 /\ backend = "pickle") =>
           GetNow(call.key) = Outcome("none", JNull)
    /\ (JustSet /\ call.ttl = 0 /\ backend = "redis") =>
           call.exc = "ResponseError"

\* a set() of a list of records with the largest ttl, on the Redis backend,
\* over an older value of the key
C4_Witness ==
    /\ backend = "redis"
    /\ call.op = "set" /\ call.ttl = MaxTtl /\ call.value.kind = "rows"
    /\ now > 0
    /\ GetNow(call.key).ret = call.value

\* C5: in the pickle backend get(k) returns None when k was never set (or was
\* deleted) and when now - write_time >= ttl for the last set(k, v, ttl), and
\* returns v while now - write_time < ttl; the ttl the file holds is that
\* set's ttl and the file's mtime its write time.
C5_Expiry ==
    backend = "pickle" =>
        \A key \in Keys :
            /\ written[key].op \in {"none", "delete"} =>
                   GetNow(key) = Outcome("none", JNull)
            /\ written[key].op = "set" =>
                   /\ files[CachePath(key)].exists
                   /\ files[CachePath(key)].mtime = written[key].time
                   /\ PickleGetTtl(files[CachePath(key)]) =
                          [exc |-> "none", ttl |-> written[key].ttl]
                   /\ GetNow(key) =
                          IF now - written[key].time >= written[key].ttl
                          THEN Outcome("none", JNull)
                          ELSE Outcome("none", written[key].value)

\* one key whose entry has just expired while the other key's, written
\* earlier with a longer ttl, is still returned
C5_Witness ==
    /\ backend = "pickle"
    /\ \E k1, k2 \in Keys :
          /\ written[k1].op = "set" /\ written[k2].op = "set"
          /\ written[k1].time > written[k2].time
          /\ now - written[k1].time = written[k1].ttl
          /\ GetNow(k1).ret = JNull
          /\ GetNow(k2).ret = written[k2].value

\* C6, as claimed: get(k) never raises, whatever is stored under k.
C6_GetNeverRaises == \A key \in Keys : GetNow(key).exc = "none"

(***************************************************************************)
(* One set() and one get() of the pickle backend running side by side      *)
(***************************************************************************)
\* the key both processes use
RaceKey == UrlKey("http://a/data.csv")

\* the key holds a value, written by a set() that ran to its end, and it has
\* not expired
InitRace ==
    /\ backend = "pickle"
    /\ now = 0
    /\ \E old \in Values, ttl \in 1..MaxTtl :
          /\ files = PickleSet([path \in Paths |-> NoFile], now, RaceKey, old,
                               ttl)
          /\ written = [key \in Keys |->
                           IF key = RaceKey
                           THEN [op |-> "set", value |-> old, ttl |-> ttl,
                                 time |-> now]
                           ELSE NoCall]
    /\ redis = [fullkey \in FullKeys |-> NoEntry]
    /\ call = NoCall
    /\ RaceAtRest
    /\ LoadAtRest
    /\ SrcAtRest

\* set(): os.makedirs, then open(path, "wb") leaves the file empty
WriterOpen(value, ttl) ==
    /\ writer.pc = "idle"
    /\ files' = PickleSetCut(files, now, RaceKey, EmptyBytes)
    /\ writer' = [pc |-> "opened", value |-> value, ttl |-> ttl]
    /\ UNCHANGED <<backend, now, redis, call, written, reader, dirVars, srcVars,
                   loadVars>>

\* pickle.dump: a first part of the bytes reaches the file
WriterDumpPart ==
    /\ writer.pc = "opened"
    /\ files' = PickleSetCut(files, now, RaceKey, PartBytes)
    /\ writer' = [writer EXCEPT !.pc = "dumping"]
    /\ UNCHANGED <<backend, now, redis, call, written, reader, dirVars, srcVars,
                   loadVars>>

\* pickle.dump and the close of the with block: all bytes are in the file
WriterClose ==
    /\ writer.pc \in {"opened", "dumping"}
    /\ files' = PickleSet(files, now, RaceKey, writer.value, writer.ttl)
    /\ writer' = [writer EXCEPT !.pc = "done"]
    /\ UNCHANGED <<backend, now, redis, call, written, reader, dirVars, srcVars,
                   loadVars>>

\* get(): os.path.exists(path)
ReaderExists ==
    /\ reader.pc = "idle"
    /\ reader' = IF files[CachePath(RaceKey)].exists
                 THEN [pc |-> "exists"]
                 ELSE [pc |-> "done", out |-> Outcome("none", JNull)]
    /\ UNCHANGED <<cacheVars, writer, dirVars, srcVars, loadVars>>

\* time.time() - os.path.getmtime(path)
ReaderAge ==
    /\ reader.pc = "exists"
    /\ reader' = [pc |-> "age", age |-> now - files[CachePath(RaceKey)].mtime]
    /\ UNCHANGED <<cacheVars, writer, dirVars, srcVars, loadVars>>

\* self._get_ttl(path) and the comparison with the age
ReaderGetTtl ==
    /\ reader.pc = "age"
    /\ LET ttl == PickleGetTtl(files[CachePath(RaceKey)])
       IN  reader' = IF ttl.exc # "none"
                     THEN [pc |-> "done", out |-> Outcome(ttl.exc, JNull)]
                     ELSE IF reader.age >= ttl.ttl
                     THEN [pc |-> "done", out |-> Outcome("none", JNull)]
                     ELSE [pc |-> "fresh"]
    /\ UNCHANGED <<cacheVars, writer, dirVars, srcVars, loadVars>>

\* open(path, "rb"), pickle.load(f) and the return
ReaderLoad ==
    /\ reader.pc = "fresh"
    /\ LET data == PickleLoad(files[CachePath(RaceKey)].content)
       IN  reader' =
               [pc |-> "done",
                out |-> CASE data.exc = "none" -> Outcome("none", data.value)
                          [] data.exc = "UnpicklingError" ->
                                 Outcome("none", JNull)
                          [] OTHER -> Outcome(data.exc, JNull)]
    /\ UNCHANGED <<cacheVars, writer, dirVars, srcVars, loadVars>>

NextRace ==
    \/ \E value \in Values, ttl \in 1..MaxTtl : WriterOpen(value, ttl)
    \/ WriterDumpPart
    \/ WriterClose
    \/ ReaderExists
    \/ ReaderAge
    \/ ReaderGetTtl
    \/ ReaderLoad

SpecRace == InitRace /\ [][NextRace]_vars

\* C7, as claimed: a get(k) that runs while a set(k, new, ttl) runs, on a key
\* that holds an unexpired value old, returns old or new and does not raise.
C7_OldOrNew ==
    reader.pc = "done" =>
        /\ reader.out.exc = "none"
        /\ \/ reader.out.ret = written[RaceKey].value
           \/ writer.pc # "idle" /\ reader.out.ret = writer.value

(***************************************************************************)
(* A resource data source over a cache backend that other processes write  *)
(***************************************************************************)
\* nothing done yet by the instance; held is what the cache held under the
\* instance's key when the instance first read it: a valid list of records
\* whose ttl had not run out, or else JNull
NoLoads == [reads |-> 0, fetches |-> 0, held |-> None]

InitLoad ==
    /\ backend \in {"pickle", "redis"}
    /\ CacheAtRest
    /\ RaceAtRest
    /\ SrcAtRest
    /\ \E src \in SourcePool :
          inst = Some(NewResourceSource(src.url, src.resource))
    /\ lcall = NoCall
    /\ effects = NoLoads

\* another instance is created with the same arguments
NewInstance ==
    /\ inst' = Some(NewResourceSource(inst[1].url, inst[1].resource))
    /\ lcall' = [op |-> "new"]
    /\ effects' = NoLoads
    /\ UNCHANGED <<cacheVars, srcVars, raceVars>>

\* whether a record of the last set() of a key describes, at time t, a list
\* of records whose ttl has not run out
ValidRows(entry, t) ==
    /\ entry.op = "set"
    /\ entry.value.kind = "rows"
    /\ t - entry.time < entry.ttl

\* the state of the storage medium during a call: for Redis "down" is a
\* server that cannot be reached, for the pickle backend a cache directory
\* that cannot be written
StoreConditions == {"ok", "down"}

\* cache_backend.get(key) under the condition cond: connect_to_redis / conn.get
\* raise ConnectionError when the server is down
CacheGetUnder(cond, key) ==
    IF backend = "redis" /\ cond = "down"
    THEN Outcome("ConnectionError", JNull)
    ELSE CacheGet(backend, files, redis, now, key)

\* the exception cache_backend.set raises under the condition cond:
\* PickleCacheBackend.set catches the OSError of an unwritable directory
\* itself, RedisCacheBackend.set lets ConnectionError out
CacheSetExc(cond) ==
    IF backend = "redis" /\ cond = "down" THEN "ConnectionError" ELSE "none"

\* what went wrong with the cache in a call with the outcome r: the get
\* raised, its value was not a list of records, or the set did not store
CacheFailure(r, got, fetch, wr) ==
    IF ~r.read THEN "none"
    ELSE IF got.exc # "none" THEN "get"
    ELSE IF got.ret # JNull /\ ~Coercible(got.ret) THEN "uncoercible"
    ELSE IF r.fetched /\ fetch.exc = "none" /\ wr = "down" THEN "set"
    ELSE "none"

\* what a call that went through _ensure_loaded with the outcome r leaves
\* behind: the instance, the cache after cache_backend.set, the record of
\* the call (with the condition of the medium when the fetch ran) and the
\* counts
Loaded(op, filters, r, got, fetch, wr) ==
    LET key == GetCacheKey(inst[1])
        wrote == r.wrote # None /\ wr = "ok"
    IN  /\ inst' = Some(IF r.fetched
                        THEN [r.self EXCEPT !.source_path = fetch.source_path]
                        ELSE r.self)
        /\ files' = IF wrote /\ backend = "pickle"
                    THEN PickleSet(files, now, key, r.wrote[1], CacheTtl)
                    ELSE files
        /\ redis' = IF wrote /\ backend = "redis"
                    THEN RedisSet(redis, now, key, r.wrote[1], CacheTtl).db
                    ELSE redis
        /\ written' = IF wrote
                      THEN [written EXCEPT ![key] =
                               [op |-> "set", value |-> r.wrote[1],
                                ttl |-> CacheTtl, time |-> now]]
                      ELSE written
        /\ lcall' = [op |-> op, filters |-> filters, exc |-> r.exc,
                     failure |-> IF r.fetched THEN fetch.failure ELSE "none",
                     fetched |-> r.fetched,
                     cache |-> CacheFailure(r, got, fetch, wr),
                     medium |-> IF r.fetched THEN wr ELSE "ok"]
        /\ effects' =
               [reads |-> effects.reads + (IF r.read THEN 1 ELSE 0),
                fetches |-> effects.fetches + (IF r.fetched THEN 1 ELSE 0),
                held |-> IF effects.held = None /\ r.read
                         THEN IF ValidRows(written[key], now)
                                 /\ got.exc = "none"
                              THEN Some(written[key].value)
                              ELSE Some(JNull)
                         ELSE effects.held]
        /\ call' = NoCall
        /\ UNCHANGED <<backend, now, srcVars, raceVars>>

\* filter(filters) on the instance
LoadFilter(filters, upload, read, rd, wr) ==
    /\ effects.reads < MaxLoads
    /\ LET self == inst[1]
           got == CacheGetUnder(rd, GetCacheKey(self))
           fetch == FetchDataframe(self, upload, read)
       IN  Loaded("filter", filters,
                  PandasFilter(self, filters, TRUE, got, fetch, CacheSetExc(wr)),
                  got, fetch, wr)

\* get_columns() on the instance
LoadGetColumns(upload, read, rd, wr) ==
    /\ effects.reads < MaxLoads
    /\ LET self == inst[1]
           got == CacheGetUnder(rd, GetCacheKey(self))
           fetch == FetchDataframe(self, upload, read)
       IN  Loaded("get_columns", <<>>,
                  PandasGetColumns(self, TRUE, got, fetch, CacheSetExc(wr)),
                  got, fetch, wr)

\* a second passes
LoadTick == now < MaxLoadTime /\ Tick

\* the conditions that make a difference to cache_backend.get: the pickle
\* backend reads whatever file is there
ReadConditions == IF backend = "redis" THEN StoreConditions ELSE {"ok"}

\* what the uploader may do in a call on the instance: it is asked only for
\* an uploaded resource whose path is not known yet
UploadsOf(self) ==
    IF self.resource # None /\ self.source_path = ""
       /\ self.resource[1].url_type = "upload"
    THEN UploadOutcomes
    ELSE {CHOOSE upload \in UploadOutcomes : upload.exc = "none"}

\* what pd.read_csv and the medium of cache_backend.set may do in a call on
\* the instance: they matter only while the instance has no frame
ReadsOf(self) ==
    IF self.df = None THEN ReadOutcomes
    ELSE {CHOOSE read \in ReadOutcomes : read.exc = "none"}

WritesOf(self) == IF self.df = None THEN StoreConditions ELSE {"ok"}

\* another process sets the instance's key
OtherSet(value, ttl) == SetOver(GetCacheKey(inst[1]), value, ttl, JNull)

\* another process deletes the instance's key once the instance holds its
\* frame (before that a delete leaves what a key never set leaves)
OtherDelete == inst[1].df # None /\ DeleteCall(GetCacheKey(inst[1]))

\* another process's set() of the instance's key is cut short
OtherSetCut(content) == SetCutCall(GetCacheKey(inst[1]), content)

NextLoad ==
    \/ LoadTick
    \/ NewInstance
    \/ \E value \in Values, ttl \in 0..MaxTtl : OtherSet(value, ttl)
    \/ \E content \in {EmptyBytes, PartBytes} : OtherSetCut(content)
    \/ OtherDelete
    \/ \E filters \in LoadFilters, upload \in UploadsOf(inst[1]),
          read \in ReadsOf(inst[1]), rd \in ReadConditions,
          wr \in WritesOf(inst[1]) :
           LoadFilter(filters, upload, read, rd, wr)
    \/ \E upload \in UploadsOf(inst[1]), read \in ReadsOf(inst[1]),
          rd \in ReadConditions, wr \in WritesOf(inst[1]) :
           LoadGetColumns(upload, read, rd, wr)

SpecLoad == InitLoad /\ [][NextLoad]_vars

(***************************************************************************)
(* Claims about the cached frame loader                                    *)
(***************************************************************************)
\* the cache held, when the instance first read it, a list of records
\* written by a set() whose ttl had not run out
HeldRows == effects.held # None /\ effects.held[1].kind = "rows"

\* C8: when the cache holds a valid, unexpired list of records under the
\* instance's key at its first access, the instance's frame is made of those
\* records and fetch_dataframe is not called; filter([]).all() on the (new)
\* instance then returns the records last set under the key.
C8_AdoptsCached ==
    HeldRows =>
        /\ inst[1].df = Some(DataFrame(effects.held[1].rows))
        /\ effects.fetches = 0
        /\ (lcall.op = "filter" /\ lcall.filters = <<>>) =>
               /\ lcall.exc = "none"
               /\ PandasAll(inst[1]) = effects.held[1].rows

\* a new instance whose filter([]) found the records another process had
\* set, on a source whose own fetch cannot succeed
C8_Witness ==
    /\ HeldRows
    /\ lcall.op = "filter" /\ lcall.filters = <<>>
    /\ PandasAll(inst[1]) = CachedRows
    /\ inst[1].url = ""

\* C9, as claimed: over any filter and get_columns calls on one instance the
\* cache is read at most once and fetch_dataframe runs at most once.
C9_LoadedOnce == effects.reads <= 1 /\ effects.fetches <= 1

\* C10, as claimed: when the fetch fails (file not reached, not parsed, or
\* source path not resolved), filter(F) does not raise, all() returns [] and
\* count() returns 0.
C10_FetchFailureIsEmpty ==
    (lcall.op = "filter" /\ lcall.failure # "none") =>
        /\ lcall.exc = "none"
        /\ PandasAll(inst[1]) = <<>>
        /\ PandasCount(inst[1]) = 0

\* C11, as claimed: when the cache backend's get or set fails during the
\* load (server down, payload not decodable, value not a list of records,
\* directory unwritable) of a source whose path resolves, filter() does not
\* raise, fetch_dataframe has run and all() returns the rows of the frame.
C11_CacheFailureIsMiss ==
    (lcall.op = "filter" /\ lcall.cache # "none" /\ inst[1].url # "") =>
        /\ lcall.exc = "none"
        /\ lcall.fetched
        /\ inst[1].df # None
        /\ lcall.filters = <<>> =>
               PandasAll(inst[1]) = PandasAll([inst[1] EXCEPT !.filtered_df = @.df])

(***************************************************************************)
(* One filter() call on a new data source, with its argument recorded      *)
(***************************************************************************)
\* filter items: a number compared with a numeric column, substrings, a
\* field that is no column, values that are no numbers, and the characters
\* that regular expressions and SQL patterns read as wildcards
ProbePool == FilterPool \cup {
    [field |-> "age",  operator |-> "=",    value |-> <<"x">>],
    [field |-> "age",  operator |-> ">",    value |-> <<"x">>],
    [field |-> "age",  operator |-> "<",    value |-> <<"2">>],
    [field |-> "age",  operator |-> "like", value |-> <<"1", "5", "7">>],
    [field |-> "age",  operator |-> "like", value |-> <<"1", "5">>],
    [field |-> "name", operator |-> "like", value |-> <<".">>],
    [field |-> "name", operator |-> "like", value |-> <<"_">>] }

ProbeLists == {q \in SeqsUpTo(ProbePool, MaxFilters) : NoDup(q)}

InitFilter ==
    /\ InitSrc

\* the first filter(filters) on the instance, remembering the argument
Probe(filters) ==
    /\ asked = None
    /\ FilterCall(filters)
    /\ asked' = Some(filters)

NextFilter ==
    \/ \E filters \in ProbeLists : Probe(filters)
    \/ AllCall
    \/ CountCall

SpecFilter == InitFilter /\ [][NextFilter]_vars

(***************************************************************************)
(* Claims about filter items                                               *)
(***************************************************************************)
\* the list q without its i-th item
Remove(q, i) == SubSeq(q, 1, i - 1) \o SubSeq(q, i + 1, Len(q))

\* the item's value is no number and its column is numeric
BadValue(item) == IsNumericColumn(item.field) /\ ~IsNumeral(item.value)

\* C12, as claimed: in every variant, when an item of the filter list has a
\* value that cannot be coerced to its column's type, filter() does not raise
\* and all() is what the list without that item gives.
C12_BadValueSkipped ==
    asked # None =>
        \A i \in 1..Len(asked[1]) :
            BadValue(asked[1][i]) =>
                /\ raised = "none"
                /\ SourceAll(variant, ds) =
                       Fresh(variant, base, Remove(asked[1], i)).all

\* C13, as claimed: an item whose field is no column of the source leaves
\* the result as it is without it and does not raise, in every variant.
C13_UnknownFieldNoOp ==
    asked # None =>
        \A i \in 1..Len(asked[1]) :
            asked[1][i].field \notin ColumnSet =>
                /\ raised = "none"
                /\ SourceAll(variant, ds) =
                       Fresh(variant, base, Remove(asked[1], i)).all

(***************************************************************************)
(* Claims about paginate and sort                                          *)
(***************************************************************************)
\* C14, as claimed: paginate(page, size) with page = 0 or size = 0 leaves
\* the view of every variant as it was, so all() returns the same rows.
C14_ZeroPageNoOp ==
    [][\A page \in 0..MaxPage, size \in 0..MaxSize :
          (PaginateCall(page, size) /\ (page = 0 \/ size = 0)) =>
              /\ raised' = "none"
              /\ SourceAll(variant', ds') = SourceAll(variant, ds)
      ]_vars

\* C15, as claimed: sort(sort_by, sort_order) with sort_by empty, absent or
\* no column of the source does not raise and leaves the instance as it was,
\* in every variant and for views of any length.
C15_UnknownSortNoOp ==
    [][\A sort_by \in SortFields, sort_order \in SortOrders :
          (SortCall(sort_by, sort_order)
               /\ (sort_by = "" \/ sort_by \notin ColumnSet)) =>
              /\ raised' = "none"
              /\ ds' = ds
      ]_vars

\* rows with equal values of field stand in q in the order they have in view
TiesKeepOrder(q, view, field) ==
    \A i, j \in 1..Len(q) :
        (i < j /\ q[i][field] = q[j][field]) =>
            \E k, l \in 1..Len(view) : k < l /\ view[k] = q[i] /\ view[l] = q[j]

\* C16, as claimed: in the list and frame variants a sort by a column,
\* ascending or descending, keeps rows with equal keys in the relative order
\* they had before the call (the base-store order, for a first sort).
C16_StableSort ==
    [][\A sort_by \in ColumnSet, sort_order \in SortOrders :
          (SortCall(sort_by, sort_order) /\ variant \in {"list", "frame"}) =>
              \A q \in SourceAll(variant', ds') :
                  \A view \in SourceAll(variant, ds) :
                      TiesKeepOrder(q, view, sort_by)
      ]_vars

(***************************************************************************)
(* Claims about the like operator                                          *)
(***************************************************************************)
\* the rows of q whose field, as a string, contains value, ignoring case
RowsContaining(q, field, value) ==
    SelectSeq(q, LAMBDA row :
        Contains(Lower(IF IsNumericColumn(field) THEN StrOfInt(row[field])
                       ELSE row[field]),
                 Lower(value)))

\* the only item of the recorded filter() argument is a like on a column
AskedLike ==
    /\ asked # None
    /\ Len(asked[1]) = 1
    /\ asked[1][1].operator = "like"
    /\ asked[1][1].field \in ColumnSet

\* C17, as claimed: in every variant a like item keeps exactly the rows
\* whose column value, as a string, contains the filter value as a literal
\* substring ignoring case, for columns of every type and every filter string.
C17_LikeIsSubstring ==
    AskedLike =>
        /\ raised = "none"
        /\ SourceAll(variant, ds) =
               {RowsContaining(base, asked[1][1].field, asked[1][1].value)}

\* C18: in the frame variant, on a numeric column, an "=" item compares
\* the column with the number the value parses to, and a like item matches
\* the column's string form against the filter string as given: on rows with
\* age 157 and age 15, (age, like, "157") returns exactly the row with 157.
C18_FrameLikeUsesString ==
    (/\ asked # None
     /\ variant = "frame"
     /\ Len(asked[1]) = 1
     /\ asked[1][1].field = "age"
     /\ asked[1][1].operator \in {"=", "like"}
     /\ IsNumeral(asked[1][1].value)) =>
        /\ raised = "none"
        /\ SourceAll(variant, ds) =
               {IF asked[1][1].operator = "like"
                THEN RowsContaining(base, "age", asked[1][1].value)
                ELSE SelectSeq(base, LAMBDA row :
                         row.age = ParseNumeral(asked[1][1].value))}

\* (age, like, "157") on a frame with a row of age 157 followed by a row of
\* age 15 has returned the first row alone
C18_Witness ==
    /\ variant = "frame"
    /\ asked = Some(<<[field |-> "age", operator |-> "like",
                       value |-> <<"1", "5", "7">>]>>)
    /\ Len(base) = 2 /\ base[1].age = 157 /\ base[2].age = 15
    /\ SourceAll(variant, ds) = {<<base[1]>>}

(***************************************************************************)
(* Claims about delete and about key names                                 *)
(***************************************************************************)
\* C19: delete(k) does not raise, also when k is not stored; a second
\* delete(k) would leave the store as the first left it; and from a delete(k)
\* to the next set(k, ...) get(k) returns None.  On both backends.
C19_DeleteIdempotent ==
    /\ [](\A key \in Keys :
             written[key].op = "delete" => GetNow(key) = Outcome("none", JNull))
    /\ [][\A key \in Keys :
             DeleteCall(key) =>
                 /\ call'.exc = "none"
                 /\ PickleDelete(files', key) = files'
                 /\ RedisDelete(redis', key) = redis'
                 /\ PickleDeleteExc(files', key) = "none"
         ]_vars

\* a delete of a key that was not stored, while the other key is stored and
\* returned
C19_Witness ==
    /\ call.op = "delete" /\ ~call.found
    /\ \E key \in Keys \ {call.key} :
          written[key].op = "set" /\ GetNow(key).ret = written[key].value
                                  /\ written[key].value # JNull

\* the names under which the store holds something
StoredNames ==
    IF backend = "redis"
    THEN {name \in DOMAIN redis : redis[name].present}
    ELSE {name \in DOMAIN files : files[name].exists}

\* C20: every backend stores an entry under the namespaced key: right after
\* set(k, ...) Redis holds a key "ckanext:tables:" + k, and the cache
\* directory holds a file named by the hash of "ckanext:tables:" + k.
C20_NamespacedKeys ==
    (call.op = "set" /\ call.exc = "none") =>
        IF backend = "redis"
        THEN FullKey(call.key) \in StoredNames
        ELSE Sha256(FullKey(call.key)) \in StoredNames

(***************************************************************************)
(* Claims about what the loader leaves in the cache                        *)
(***************************************************************************)
\* this step is a call on the instance in which fetch_dataframe ran and
\* both the path and the read succeeded
FetchedNow ==
    /\ effects'.fetches = effects.fetches + 1
    /\ lcall'.failure = "none"

\* after this step the cache returns, under the instance's key, the records
\* of the instance's frame from now until CacheTtl seconds have passed
CacheHoldsFrame ==
    LET key == GetCacheKey(inst'[1])
        rows == ToDictRecords(inst'[1].df[1])
    IN  /\ inst'[1].df # None
        /\ \A t \in {now', now' + 1, now' + CacheTtl - 1} :
              CacheGet(backend', files', redis', t, key) = Outcome("none", rows)
        /\ CacheGet(backend', files', redis', now' + CacheTtl, key)
              = Outcome("none", JNull)

C30_NoWriteAfterFailure ==
    [][(effects'.fetches = effects.fetches + 1 /\ lcall'.failure # "none") =>
           (files' = files /\ redis' = redis)]_vars

\* the number of times the row r occurs in the list q
Occurrences(q, r) == Cardinality({i \in 1..Len(q) : q[i] = r})

\* C33, as claimed: all() and count() on a new instance, before any filter,
\* sort or paginate call, give every row of the backing store (each as often
\* as the store holds it) and the number of rows of the store, in every
\* variant.
C33_FreshReadsWholeStore ==
    (last = "init" /\ ret # None) =>
        /\ ret[1].op = "all" =>
               /\ Len(ret[1].rows) = Len(base)
               /\ \A i \in 1..Len(base) :
                      Occurrences(ret[1].rows, base[i]) = Occurrences(base, base[i])
        /\ ret[1].op = "count" => ret[1].count = Len(base)

\* C34: once the instance holds its frame, no step changes the frame: sets,
\* cut-short sets and deletes of its key by other processes and the passing
\* of time leave the instance as it is, and a filter or get_columns call
\* neither reads the cache nor fetches nor raises, and filter gives what the
\* frame alone determines.
C34_LoadedIgnoresCache ==
    [][(inst # None /\ inst[1].df # None /\ lcall'.op # "new") =>
          /\ inst'[1].df = inst[1].df
          /\ effects'.reads = effects.reads
          /\ effects'.fetches = effects.fetches
          /\ lcall' = lcall => inst' = inst
          /\ lcall' # lcall =>
                 /\ lcall'.exc = "none"
                 /\ lcall'.op = "filter" =>
                        inst'[1] = PandasFilterLoaded(inst[1], lcall'.filters).self
      ]_vars

\* a filter call on an instance that had adopted the rows in the cache, made
\* after another process deleted the key: it returns the adopted rows
C34_Witness ==
    /\ HeldRows
    /\ now = 0 /\ call = NoCall
    /\ written[GetCacheKey(inst[1])].op = "delete"
    /\ lcall.op = "filter" /\ lcall.filters = <<>> /\ lcall.exc = "none"
    /\ PandasAll(inst[1]) = effects.held[1].rows
    /\ Len(effects.held[1].rows) > 0

(***************************************************************************)
(* One resource data source: its construction and get_source_path calls    *)
(***************************************************************************)
\* the resources given to the constructor: none, or a resource that is or is
\* not an upload and has or has not a url
PathResources ==
    {None} \cup
    {Some([id |-> "r1", url_type |-> type, url |-> url]) :
        type \in {"", "upload"}, url \in {"", "http://b/r.csv"}}

\* the urls given to the constructor; "" is no url
PathUrls == {"", "http://a/data.csv"}

\* what the uploader may do: give a path (not the same in every call), raise
\* an exception get_source_path catches, or raise another one
PathUploadOutcomes ==
    UploadOutcomes \cup {[exc |-> "none", path |-> "/storage/new/r1"],
                         [exc |-> "ObjectNotFound"], [exc |-> "KeyError"]}

\* no get_source_path call made yet on the instance; first is the first path
\* a call returned
NoPaths == [calls |-> 0, asks |-> 0, first |-> None]

\* BaseResourceDataSource(url=url, resource=resource)
PathNew(url, resource) ==
    LET r == ResourceInit(url, resource)
    IN  /\ inst' = r.self
        /\ lcall' = [op |-> "new", exc |-> r.exc, url |-> url,
                     resource |-> resource]
        /\ effects' = NoPaths
        /\ UNCHANGED <<cacheVars, srcVars, raceVars>>

InitPath ==
    /\ backend = "none"
    /\ CacheAtRest
    /\ RaceAtRest
    /\ SrcAtRest
    /\ \E url \in PathUrls, resource \in PathResources :
          LET r == ResourceInit(url, resource)
          IN  /\ inst = r.self
              /\ lcall = [op |-> "new", exc |-> r.exc, url |-> url,
                          resource |-> resource]
    /\ effects = NoPaths

\* get_source_path() on the instance, the uploader doing upload if asked
PathGet(upload) ==
    /\ inst # None
    /\ effects.calls < MaxPathCalls
    /\ LET self == inst[1]
           r == GetSourcePath(self, upload)
           consulted == UploaderAsked(self)
       IN  /\ inst' = Some(IF r.exc = "none"
                           THEN [self EXCEPT !.source_path = r.path] ELSE self)
           /\ lcall' = [op |-> "get_source_path", exc |-> r.exc, ret |-> r.path,
                        asked |-> consulted,
                        upload |-> IF consulted THEN Some(upload) ELSE None,
                        known |-> effects.first # None]
           /\ effects' = [calls |-> effects.calls + 1,
                          asks |-> effects.asks + (IF consulted THEN 1 ELSE 0),
                          first |-> IF effects.first = None /\ r.exc = "none"
                                    THEN Some(r.path) ELSE effects.first]
    /\ UNCHANGED <<cacheVars, srcVars, raceVars>>

\* the formats of the resources given to guess_data_source
GuessFormats == {<<>>, <<"x", "l", "s", "x">>, <<"X", "L", "S", "X">>,
                 <<"X", "l", "s", "x">>, <<"c", "s", "v">>, <<"x", "l", "s">>,
                 <<"X", "L", "S">>, <<"o", "d", "s">>}

\* the resources given to guess_data_source
GuessResources ==
    {[id |-> "r1", url |-> url, format |-> format] :
        url \in {"", "http://b/r.csv"}, format \in GuessFormats}

\* guess_data_source(resource)
PathGuess(resource) ==
    LET r == GuessDataSource(resource)
    IN  /\ inst' = r.self
        /\ lcall' = [op |-> "guess", exc |-> r.exc, message |-> r.message,
                     resource |-> resource]
        /\ effects' = NoPaths
        /\ UNCHANGED <<cacheVars, srcVars, raceVars>>

NextPath ==
    \/ \E url \in PathUrls, resource \in PathResources : PathNew(url, resource)
    \/ \E resource \in GuessResources : PathGuess(resource)
    \/ \E upload \in PathUploadOutcomes : PathGet(upload)

SpecPath == InitPath /\ [][NextPath]_vars

(***************************************************************************)
(* Claims about the source path                                            *)
(***************************************************************************)
\* the call just made is a get_source_path() that returned
PathReturned == lcall.op = "get_source_path" /\ lcall.exc = "none"

\* C22: get_source_path returns the uploader's path when the resource is an
\* upload, otherwise the resource's url when it is not empty, otherwise the
\* url given to the constructor; once a call has returned a path, every
\* later call returns that path and does not ask the uploader.
C22_PathOrder ==
    PathReturned =>
        LET self == inst[1]
        IN  /\ lcall.ret = effects.first[1]
            /\ lcall.known => ~lcall.asked
            /\ ~lcall.known =>
                   IF self.resource # None /\ self.resource[1].url_type = "upload"
                   THEN /\ lcall.asked
                        /\ lcall.upload[1].exc = "none"
                        /\ lcall.ret = lcall.upload[1].path
                   ELSE IF self.resource # None /\ self.resource[1].url # ""
                   THEN lcall.ret = self.resource[1].url
                   ELSE lcall.ret = self.url

\* a second call on an uploaded resource that also has a url, constructed
\* with a url: it returns the uploader's path once more, without asking
C22_Witness ==
    /\ PathReturned /\ lcall.known /\ ~lcall.asked
    /\ effects.calls = 2 /\ effects.asks = 1
    /\ inst[1].url # "" /\ inst[1].resource # None
    /\ inst[1].resource[1].url # ""
    /\ lcall.ret = "/storage/new/r1"

\* the resource did not give a path in the call just made: the uploader
\* raised, or the resource is no upload and has no url
ResourceFailed ==
    /\ lcall.op = "get_source_path"
    /\ ~lcall.known
    /\ inst[1].resource # None
    /\ \/ lcall.asked /\ lcall.upload[1].exc # "none"
       \/ inst[1].resource[1].url_type # "upload" /\ inst[1].resource[1].url = ""

\* C23, as claimed: when the resource gives no path (the uploader raises, or
\* the resource has no usable path) and a url was given to the constructor,
\* get_source_path returns that url and does not raise.
C23_FallsBackToUrl ==
    (ResourceFailed /\ inst[1].url # "") =>
        /\ lcall.exc = "none"
        /\ lcall.ret = inst[1].url

\* C24, as claimed: a source without a url, and without a resource that is
\* an upload or has a url, is not constructed: the constructor raises.
C24_ConstructorChecks ==
    (lcall.op = "new" /\ lcall.url = ""
       /\ (lcall.resource = None
           \/ (lcall.resource[1].url_type # "upload" /\ lcall.resource[1].url = "")))
    => (lcall.exc # "none" /\ inst = None)

\* C25: guess_data_source on a resource whose format, in lower case, is
\* none of csv, xlsx, orc, parquet, feather raises ValueError with a message
\* that ends with the format; no source exists afterwards, and nothing was
\* fetched or read from or written to a cache.
C25_UnsupportedFormat ==
    (lcall.op = "guess" /\ Lower(lcall.resource.format) \notin SupportedFormats) =>
        /\ lcall.exc = "ValueError"
        /\ \E i \in 1..(Len(lcall.message) + 1) :
              Lower(SubSeq(lcall.message, i, Len(lcall.message)))
                  = Lower(lcall.resource.format)
        /\ Contains(lcall.message, UnsupportedPrefix)
        /\ inst = None
        /\ effects = NoPaths
        /\ CacheAtRest

\* guess_data_source on a resource of the format "XLS", after a source had
\* been constructed
C25_Witness ==
    /\ lcall.op = "guess"
    /\ lcall.resource.format = <<"X", "L", "S">>
    /\ lcall.resource.url # ""
    /\ lcall.exc = "ValueError"
    /\ lcall.message = UnsupportedPrefix \o <<"x", "l", "s">>

(***************************************************************************)
(* serialize_value applied to one value                                    *)
(***************************************************************************)
\* values that are neither lists nor dicts: None, True, an int, a float, a
\* str, bytes (with a byte that is not utf-8), a datetime, a Decimal, numpy
\* scalars whose item() is an int or a datetime, and an object of another type
Leaves == {
    JNull, PyBool(TRUE), JInt(7), PyFloat("1.5"), JStr(<<"A", "l">>),
    PyBytes(<<"a", "\\xff">>), PyDatetime("2023-01-01T12:00:00"),
    PyDecimal("10.5"), NpScalar(JInt(3)),
    NpScalar(PyDatetime("2023-01-02T14:30:00")), PyObject("{1, 2}") }

\* the values nested up to n deep: on top of the shallower ones, lists of
\* one of them, tuples of an int and one of them, dicts with one of them
RECURSIVE ValuesUpTo(_)
ValuesUpTo(n) ==
    IF n = 0 THEN Leaves
    ELSE LET inner == ValuesUpTo(n - 1)
         IN  inner \cup {PyList(<<x>>) : x \in inner}
                   \cup {PyTuple(<<JInt(4), x>>) : x \in Leaves}
                   \cup {PyDict([k \in {"a"} |-> x]) : x \in inner}
                   \cup {PyList(<<>>), PyDict([k \in {} |-> JNull])}

InitSerialize ==
    /\ backend = "none"
    /\ CacheAtRest
    /\ RaceAtRest
    /\ LoadAtRest
    /\ SrcAtRest

\* serialize_value(val)
SerializeCall(val) ==
    /\ ret' = Some([op |-> "serialize_value", val |-> val,
                    out |-> SerializeAny(val)])
    /\ UNCHANGED <<variant, base, ds, raised, last, cur, paged, asked,
                   cacheVars, raceVars, loadVars>>

NextSerialize == \E val \in ValuesUpTo(MaxNest) : SerializeCall(val)

SpecSerialize == InitSerialize /\ [][NextSerialize]_vars

(***************************************************************************)
(* Claims about serialization                                              *)
(***************************************************************************)
\* v holds only None, booleans, numbers, strings, lists and dicts of these
RECURSIVE OnlyJson(_)
OnlyJson(v) ==
    CASE v.kind \in {"null", "bool", "int", "float", "str"} -> TRUE
      [] v.kind = "list" -> \A i \in 1..Len(v.items) : OnlyJson(v.items[i])
      [] v.kind = "dict" -> \A k \in DOMAIN v.items : OnlyJson(v.items[k])
      [] OTHER -> FALSE

CellRowPool == {
    [id |-> 1, age |-> 157, name |-> <<"A", "l">>,
     seen |-> PyDatetime("2023-01-01T12:00:00")],
    [id |-> 2, age |-> 15, name |-> <<"b", "o">>,
     seen |-> PyDatetime("2023-01-02T14:30:00")],
    [id |-> 3, age |-> 15, name |-> <<"B", "o">>,
     seen |-> PyDatetime("2023-01-02T14:30:00")] }

CellBases == {q \in SeqsUpTo(CellRowPool, MaxRows) : NoDup(q)}

InitCells ==
    /\ variant \in Variants
    /\ base \in CellBases
    /\ ds = NewSource(variant, base)
    /\ raised = "none"
    /\ last = "init"
    /\ cur = None
    /\ paged = FALSE
    /\ ret = None
    /\ asked = None
    /\ backend = "none"
    /\ CacheAtRest
    /\ RaceAtRest
    /\ LoadAtRest

\* filter(filters), the argument recorded
CellFilter(filters) == FilterCall(filters) /\ asked' = Some(filters)

NextCells ==
    \/ \E filters \in {q \in FilterLists :
                          \A i \in 1..Len(q) : q[i].field \in ColumnSet} :
           CellFilter(filters)
    \/ \E page \in 0..MaxPage, size \in 0..MaxSize : PaginateCall(page, size)
    \/ AllCall
    \/ CountCall

SpecCells == InitCells /\ [][NextCells]_vars

\* C26, as claimed: in every variant, the rows all() returns hold only
\* JSON-safe cells: the datetime of the backing store has been replaced by
\* the value serializer's string.
C26_AllIsJsonSafe ==
    (ret # None /\ ret[1].op = "all") =>
        \A i \in 1..Len(ret[1].rows) : OnlyJson(ret[1].rows[i].seen)

(***************************************************************************)
(* Claims about the variants side by side                                  *)
(***************************************************************************)
\* C28, as claimed: over the same rows, filter(F) on a new list source and
\* on a new frame source give the same exception or none, the same rows from
\* all() and the same count(), also for <, <=, >, >= on a numeric column.
C28_ListEqualsFrame ==
    asked # None =>
        Fresh("list", base, asked[1]) = Fresh("frame", base, asked[1])

(***************************************************************************)
(* Processes creating the cache directory side by side (config.py)         *)
(***************************************************************************)
\* tk.config.get(CONF_CACHE_DIR, "/tmp/ckanext-tables-cache")
ConfDir == "/tmp/ckanext-tables-cache"

\* tempfile.gettempdir()
TempDir == "/tmp"

\* a process that has not called get_cache_dir yet
NoDir == [pc |-> "start", dir |-> None, err |-> "none", wrote |-> FALSE]

InitDir ==
    /\ backend = "none"
    /\ CacheAtRest
    /\ SrcAtRest
    /\ LoadAtRest
    /\ writer = [pc |-> "idle"]
    /\ reader = [pc |-> "idle"]
    /\ procs = [p \in 1..NumProcs |-> NoDir]
    /\ cachedir \in [exists : BOOLEAN, creatable : BOOLEAN]

\* get_cache_dir: os.path.exists(cache_dir); when it exists the function
\* returns it
DirExists(p) ==
    /\ procs[p].pc = "start"
    /\ procs' = [procs EXCEPT ![p] =
                    IF cachedir.exists
                    THEN [@ EXCEPT !.pc = "returned", !.dir = Some(ConfDir)]
                    ELSE [@ EXCEPT !.pc = "missing"]]
    /\ UNCHANGED <<cachedir, writer, reader, cacheVars, srcVars, loadVars>>

\* get_cache_dir: os.makedirs(cache_dir) in try / except OSError.  makedirs
\* raises FileExistsError when the directory is there by now and
\* PermissionError when it cannot be made; both are OSErrors, and the
\* handler takes tempfile.gettempdir() instead
DirMakedirs(p) ==
    /\ procs[p].pc = "missing"
    /\ LET err == IF cachedir.exists THEN "FileExistsError"
                  ELSE IF ~cachedir.creatable THEN "PermissionError"
                  ELSE "none"
       IN  /\ procs' = [procs EXCEPT ![p] =
                           [@ EXCEPT !.pc = "returned", !.err = err,
                                     !.dir = IF err = "none" THEN Some(ConfDir)
                                             ELSE Some(TempDir)]]
           /\ cachedir' = IF err = "none" THEN [cachedir EXCEPT !.exists = TRUE]
                          ELSE cachedir
    /\ UNCHANGED <<writer, reader, cacheVars, srcVars, loadVars>>

\* PickleCacheBackend(dir).set(...) by the process: os.makedirs(dir,
\* exist_ok=True), open and pickle.dump; an OSError is logged
DirSet(p) ==
    /\ procs[p].pc = "returned"
    /\ LET conf == procs[p].dir = Some(ConfDir)
           ok == ~conf \/ cachedir.exists \/ cachedir.creatable
       IN  /\ procs' = [procs EXCEPT ![p] = [@ EXCEPT !.pc = "stored",
                                                      !.wrote = ok]]
           /\ cachedir' = IF conf /\ ok THEN [cachedir EXCEPT !.exists = TRUE]
                          ELSE cachedir
    /\ UNCHANGED <<writer, reader, cacheVars, srcVars, loadVars>>

\* the directory, under /tmp, is removed by a cleaner
DirCleaned ==
    /\ cachedir.exists
    /\ cachedir' = [cachedir EXCEPT !.exists = FALSE]
    /\ UNCHANGED <<procs, writer, reader, cacheVars, srcVars, loadVars>>

NextDir ==
    \/ \E p \in 1..NumProcs : DirExists(p)
    \/ \E p \in 1..NumProcs : DirMakedirs(p)
    \/ \E p \in 1..NumProcs : DirSet(p)
    \/ DirCleaned

SpecDir == InitDir /\ [][NextDir]_vars

\* C29, as claimed: a process whose get_cache_dir did not fail for lack of
\* permission uses the configured directory, also when another process made
\* the directory between its exists() and its makedirs().
C29_SameDirectory ==
    \A p \in 1..NumProcs :
        (procs[p].pc \in {"returned", "stored"}
           /\ procs[p].err # "PermissionError") =>
            procs[p].dir = Some(ConfDir)

(***************************************************************************)
(* Claims about the base store                                             *)
(***************************************************************************)
\* C31: after any filter, sort, paginate, all and count calls the base store
\* holds the rows it held at construction, in the same order: the list
\* source's data, the relational source's base statement, and the frame
\* source's frame from the moment it is loaded.
C31_BaseUnchanged ==
    CASE variant = "list"  -> ds.data = base
      [] variant = "frame" -> ds.df = None \/ ds.df = Some(DataFrame(base))
      [] variant = "db"    -> ds.base_stmt = Select(base)

\* a list source whose view, after a sort, holds the same rows as the data
\* in another order
C31_Witness ==
    /\ variant = "list" /\ last = "sort" /\ raised = "none"
    /\ Len(ds.filtered) = Len(ds.data)
    /\ ds.filtered # ds.data
    /\ ds.data = base

(***************************************************************************)
(* Claims about writes to the pickle backend                               *)
(***************************************************************************)
\* C32: in the pickle backend a set(k1, ...), also one cut short, and a
\* delete(k1) leave what get(k2) returns as it was, for every other key k2.
C32_OtherKeysUntouched ==
    [][\A k2 \in Keys :
          (backend = "pickle" /\ call'.op \in {"set", "cut", "delete"}
             /\ call'.key # k2) =>
              PickleGet(files', now', k2) = PickleGet(files, now, k2)
      ]_vars

\* a set() cut short on one key while the other key's entry is returned
C32_Witness ==
    /\ backend = "pickle" /\ call.op = "cut"
    /\ \E k2 \in Keys \ {call.key} :
          /\ written[k2].op = "set"
          /\ GetNow(k2) = Outcome("none", written[k2].value)
          /\ written[k2].value # JNull

\* C36: in the pickle backend, after a set(k, v2, t2) over an entry of k,
\* get(k) returns v2 (and not the older value) until t2 seconds have passed
\* since this set, and None from then on, whatever the older ttl and write
\* time were.
C36_LastWriterWins ==
    (backend = "pickle" /\ call.op = "set") =>
        \A t \in now..(now + MaxTtl + 1) :
            PickleGet(files, t, call.key) =
                IF t - now < call.ttl THEN Outcome("none", call.value)
                ELSE Outcome("none", JNull)

\* a set() with the ttl 1 at a later time over another value that get()
\* still returned, written with a longer ttl
C36_Witness ==
    /\ backend = "pickle" /\ call.op = "set"
    /\ call.over # JNull /\ call.over # call.value
    /\ call.ttl = 1 /\ now > 0
    /\ GetNow(call.key).ret = call.value

(***************************************************************************)
(* A table over one data source instance (table.py, views.py)              *)
(***************************************************************************)
\* the fields of the dataclass table.QueryParams
QueryParamFields ==
    {"page", "size", "field", "operator", "value", "sort_by", "sort_order"}

\* QueryParams objects: a page, a size, one filter and a sort column
ParamPool ==
    {[page |-> page, size |-> size, field |-> f.field,
      operator |-> f.operator, value |-> f.value,
      sort_by |-> sort_by, sort_order |-> <<>>] :
        page \in 1..MaxPage, size \in 1..MaxSize, f \in FilterPool,
        sort_by \in {"", "age"}}

\* the positional parameters of filter(self, filters)
FilterParameters == <<"filters">>

\* data_source.filter(*args): Python binds the arguments to the parameters
\* before the body runs and raises TypeError when their numbers differ
FilterWith(v, self, rows, args) ==
    IF Len(args) # Len(FilterParameters)
    THEN Raised(self, "TypeError")
    ELSE SourceFilter(v, self, rows, args[1])

\* TableDefinition.get_raw_data(params): the outcomes of
\* filter(params.field, params.operator, params.value).sort(..).paginate(..).all()
GetRawDataOutcomes(v, self, rows, params) ==
    LET f == FilterWith(v, self, rows,
                        <<params.field, params.operator, params.value>>)
        failed(r) == {[self |-> r.self, exc |-> r.exc, ret |-> None]}
    IN  IF f.exc # "none" THEN failed(f)
        ELSE UNION {
            IF sorted.exc # "none" THEN failed(sorted)
            ELSE LET p == SourcePaginate(v, sorted.self, params.page, params.size)
                 IN  IF p.exc # "none" THEN failed(p)
                     ELSE {[self |-> p.self, exc |-> "none", ret |-> Some(got)] :
                              got \in SourceAll(v, p.self)} :
            sorted \in SourceSort(v, f.self, params.sort_by, params.sort_order)}

\* TableDefinition.get_total_count(params):
\* filter(params.field, params.operator, params.value).count()
GetTotalCountOutcome(v, self, rows, params) ==
    LET f == FilterWith(v, self, rows,
                        <<params.field, params.operator, params.value>>)
    IN  [self |-> f.self, exc |-> f.exc,
         ret |-> IF f.exc = "none" THEN Some(SourceCount(v, f.self)) ELSE None]

\* get_raw_data(params) on the table of the instance; asked keeps the params
GetRawData(params) ==
    \E r \in GetRawDataOutcomes(variant, ds, base, params) :
        /\ ds' = r.self
        /\ raised' = r.exc
        /\ last' = "get_raw_data"
        /\ ret' = IF r.ret = None THEN None
                  ELSE Some([op |-> "all", rows |-> r.ret[1]])
        /\ asked' = Some(params)
        /\ UNCHANGED <<variant, base, cur, paged, cacheVars, raceVars, loadVars>>

\* get_total_count(params) on the table of the instance
GetTotalCount(params) ==
    LET r == GetTotalCountOutcome(variant, ds, base, params)
    IN  /\ ds' = r.self
        /\ raised' = r.exc
        /\ last' = "get_total_count"
        /\ ret' = IF r.ret = None THEN None
                  ELSE Some([op |-> "count", count |-> r.ret[1]])
        /\ asked' = Some(params)
        /\ UNCHANGED <<variant, base, cur, paged, cacheVars, raceVars, loadVars>>

\* the keyword arguments AjaxURLView.build_params gives to QueryParams
BuildParamsKeywords == {"page", "size", "filters", "sort_by", "sort_order"}

\* AjaxURLView.build_params: QueryParams(**kwargs) raises TypeError for a
\* keyword that is not one of its fields
BuildParams(page, size, filters) ==
    IF BuildParamsKeywords \subseteq QueryParamFields
    THEN Outcome("none", [page |-> page, size |-> size, field |-> None,
                          operator |-> None, value |-> None,
                          sort_by |-> "", sort_order |-> <<>>])
    ELSE Outcome("TypeError", JNull)

\* AjaxURLView.get for the request arguments page, size and filters:
\* build_params, get_data, get_total_count
AjaxGet(page, size, filters) ==
    LET built == BuildParams(page, size, filters)
    IN  /\ last' = "ajax_get"
        /\ asked' = None
        /\ IF built.exc # "none"
           THEN ds' = ds /\ raised' = built.exc /\ ret' = None
           ELSE \E r \in GetRawDataOutcomes(variant, ds, base, built.ret) :
                   IF r.exc # "none"
                   THEN ds' = r.self /\ raised' = r.exc /\ ret' = None
                   ELSE LET total == GetTotalCountOutcome(variant, r.self, base,
                                                          built.ret)
                        IN  /\ ds' = total.self
                            /\ raised' = total.exc
                            /\ ret' = IF total.ret = None THEN None
                                      ELSE Some([op |-> "json", data |-> r.ret[1],
                                                 total |-> total.ret[1]])
        /\ UNCHANGED <<variant, base, cur, paged, cacheVars, raceVars, loadVars>>

NextTable ==
    \/ \E params \in ParamPool : GetRawData(params)
    \/ \E params \in ParamPool : GetTotalCount(params)
    \/ \E page \in 1..MaxPage, size \in 1..MaxSize, filters \in FilterLists :
           AjaxGet(page, size, filters)

SpecTable == InitSrc /\ [][NextTable]_vars

\* C35, as claimed: get_total_count(params) right after get_raw_data(params)
\* on the same instance does not raise and returns the number of rows of the
\* backing store that match the filter of params, whatever the page and the
\* size of params.
C35_TotalMatchesFilters ==
    [][\A params \in ParamPool :
          (last = "get_raw_data" /\ asked = Some(params) /\ GetTotalCount(params))
          => /\ raised' = "none"
             /\ ret' # None
             /\ ret'[1].count =
                    Fresh(variant, base,
                          <<[field |-> params.field, operator |-> params.operator,
                             value |-> params.value]>>).count
      ]_vars

====
